---- MODULE Spec2Model ----
(***************************************************************************)
(* A model of the task / process core of the osdev-arm kernel:             *)
(*   - the spinlock                 (kernel/nano/spinlock.c)               *)
(*   - the scheduler, sleep / wake  (scheduler source, unnamed/part_003)   *)
(*   - the mailbox                  (mailbox source, unnamed/part_003)     *)
(*   - the process lifecycle        (kernel/process/process.c)             *)
(* Each subsystem has its own specification (SpecSpin, SpecSched,          *)
(* SpecMbox, SpecProc) over its own variables; the variables of the other  *)
(* subsystems stay at their initial values.                                *)
(***************************************************************************)
EXTENDS Integers, Sequences, FiniteSets, TLC

----------------------------------------------------------------------------
(* Bounds of the model *)

\* CPUs and spinlocks of the spinlock specification
SpinCpus == 2
SpinLocks == 2

\* Mailbox specification: the largest message size and buffer size (bytes)
\* a mailbox is initialised with, the tasks using it, and the number of
\* messages sent in one run
MaxMsgSize == 2
MaxBufSize == 4
MboxTasks == 2
MaxSends == 4

\* The same for the runs with the blocking mailbox calls (message size 1)
MaxWaitBuf == 2
MaxWaitSends == 3

\* Semaphore specification: largest initial count, calls of put
MaxSemCount == 1
MaxPuts == 3

\* Scheduler specification: the CPUs, the tasks, and the depth to which
\* interrupts nest on a CPU
SchedCpus == 2
SchedTasks == 2
RunqTasks == 3

\* Interrupt dispatch: the interrupt lines
IrqLines == 2
MaxIsrNesting == 2

\* Process model: the largest PID, the PIDs process_alloc assigns in a run,
\* descriptors of the open-file table, exit statuses
MaxPid == 4
MaxAlloc == 3
OPEN_MAX == 2
MaxStatus == 1

----------------------------------------------------------------------------
(* Values shared by the subsystems *)

\* The NULL pointer (no CPU, no task, no process, no thread)
NULL == 0

VARIABLES
  \* ---- spinlock (struct SpinLock, per-CPU IRQ nesting) ----
  locked,          \* lock -> 0 / 1                     (lock->locked)
  lock_cpu,        \* lock -> CPU or NULL               (lock->cpu)
  monitor,         \* cpu -> lock whose exclusive monitor is armed, or NULL
  spc,             \* cpu -> position inside spin_lock / spin_unlock
  sarg,            \* cpu -> the lock argument of the call in progress
  held,            \* cpu -> locks whose spin_lock has returned and whose
                   \*        spin_unlock has not been called yet
  irq_save_count,  \* cpu -> nesting level of irq_save()
  irq_flags,       \* cpu -> were interrupts enabled before the first
                   \*        irq_save()
  irq_enabled,     \* cpu -> interrupts are enabled (the I bit is clear)
  spanic           \* TRUE once some CPU has panicked (the kernel halts)

spinVars == <<locked, lock_cpu, monitor, spc, sarg, held, irq_save_count,
              irq_flags, irq_enabled,
              spanic>>

VARIABLES
  \* ---- mailbox ----
  mailbox,         \* struct KMailBox (pointers are offsets from buf_start)
  mb_mem,          \* the message buffer: byte offset -> byte
  mb_pool,         \* "static": initialised by k_mailbox_init; "live":
                   \* created from k_mailbox_pool; "destroyed": after the
                   \* critical section of k_mailbox_destroy; "free": put
                   \* back into the pool
  mt_state,        \* task -> "run" | "sleep" | "ready" | "destroying" |
                   \*         "fault"
  mt_op,           \* task -> "none" | "recv" | "send" (timed call in progress)
  mt_msg,          \* task -> the message of its sleeping timed_send
  mt_timer,        \* task -> TRUE iff its sleep timer is armed
  mt_sleep_result, \* task -> task->sleep_result
  mt_ret,          \* task -> return value of its last mailbox call
  mb_sent,         \* history: the messages of the successful sends, in order
  mb_rcvd          \* history: the messages of the successful receives

mboxVars == <<mailbox, mb_pool, mb_mem, mt_state, mt_op, mt_msg, mt_timer,
              mt_sleep_result, mt_ret, mb_sent, mb_rcvd>>

VARIABLES
  \* ---- semaphore (its tasks are the mailbox specification's tasks) ----
  semaphore,       \* the counter and the list of sleeping tasks
  sem_initial,     \* history: the count the semaphore was created with
  sem_puts,        \* history: number of put calls
  sem_gets,        \* history: number of get calls that returned 0
  sem_slept        \* history: task -> TRUE iff its last get has slept

semVars == <<semaphore, sem_initial, sem_puts, sem_gets, sem_slept>>

VARIABLES
  \* ---- scheduler ----
  sched_queue,     \* priority -> sequence of tasks      (sched_queue[])
  sched_lock,      \* __sched_lock: [locked, cpu]
  user_lock,       \* the spinlock L that callers pass to sched_sleep
  wait_queue,      \* the wait list Q: sequence of tasks
  cpu_task,        \* cpu -> my_cpu->task
  cpu_ctx,         \* cpu -> position of the scheduler context
  cpu_next,        \* cpu -> the local next of sched_start while it cleans
                   \*        up an exited task, else NULL
  task_freed,      \* history: task -> number of times its kernel stack
                   \*          and its task object were freed
  cpu_isr,         \* cpu -> "none" | "handler" | "exit": the position of
                   \*        the innermost ISR in progress
  isr_stack,       \* cpu -> the positions of the interrupted ISRs
  isr_nesting,     \* cpu -> my_cpu->isr_nesting
  cpu_irq_count,   \* cpu -> IRQ-save nesting (one per spinlock held)
  task_state,      \* task -> th->state
  task_flags,      \* task -> TRUE iff TASK_FLAGS_RESCHEDULE is set
  task_sleep_result, \* task -> th->sleep_result
  task_cpu,        \* task -> th->cpu
  task_timer,      \* task -> TRUE iff th->sleep_timer is running
  tpc,             \* task -> position of the task's saved / running context
  tisr,            \* task -> TRUE iff it was switched out in sched_isr_exit
  targ,            \* task -> arguments of the call in progress
  woken_by,        \* history: task -> result of the wake-up that removed
                   \*          it from Q, "none" before that
  sleep_ret,       \* history: task -> value its last sched_sleep returned
  task_last_cpu,   \* history: task -> the CPU it was last switched out on
  kpanic           \* "" or the message of the panic that halted the kernel

schedVars == <<sched_queue, sched_lock, user_lock, wait_queue, cpu_task,
               cpu_ctx, cpu_next, task_freed, cpu_isr, isr_stack,
               isr_nesting, cpu_irq_count, task_state,
               task_flags, task_sleep_result, task_cpu, task_timer, tpc,
               tisr, targ, woken_by, sleep_ret, task_last_cpu, kpanic>>

VARIABLES
  \* ---- processes (indexed by PID: one descriptor and one thread each) ----
  process,         \* pid -> struct Process (and what became of its storage)
  thread_state,    \* pid -> "none" | "live" | "destroyed" | "freed":
                   \*        the struct ProcessThread and its kernel stack
  pid_hash,        \* the PIDs whose pid_link is in pid_hash.table
  next_pid,        \* static next_pid of process_alloc
  process_lock,    \* holder of process_lock, or NULL
  ppc,             \* pid -> position of the process in the kernel
  plocal,          \* pid -> arguments, locals and results of its call
  free_log         \* history: one record per process_free call

procVars == <<process, thread_state, pid_hash, next_pid, process_lock, ppc,
              plocal, free_log>>

\* The run queues and one wait list as a single CPU works on them
VARIABLES
  q_sched,         \* the scheduler data: run queues, task states and flags,
                   \* sleep results, the wait list
  q_task,          \* cpu->task: the task the CPU runs, NULL in the scheduler
  q_nesting,       \* cpu->isr_nesting
  q_ready_order,   \* history: the Ready tasks in the order they became Ready
  q_sleep_order,   \* history: the sleepers in the order they went to sleep
  q_ret,           \* what the last task_resume returned
  q_resumed        \* history: the tasks task_resume has been called on

queueVars == <<q_sched, q_task, q_nesting, q_ready_order, q_sleep_order,
               q_ret, q_resumed>>

\* The interrupt lines and the CPUs in interrupt_dispatch
VARIABLES
  irq_line,        \* line -> the controller's state of the line (enabled,
                   \* masked, active), the installed handler ("none" |
                   \* "direct" | "thread"), the semaphore count and the
                   \* position of its handler thread; entered: history,
                   \* the handler has been called since the last unmask;
                   \* pending: history, the dispatches of a threaded line
                   \* less the runs of its bottom-half handler
  irq_cpu          \* CPU -> its position in interrupt_dispatch, the line,
                   \* should_unmask; log, called: history of the calls made

irqVars == <<irq_line, irq_cpu>>

vars ==
  <<spinVars, mboxVars, semVars, schedVars, procVars, queueVars, irqVars>>

----------------------------------------------------------------------------
(* Spinlock: kernel/nano/spinlock.c *)

SCpu == 1..SpinCpus
SLock == 1..SpinLocks

\* A holding check that looks at the lock word only
spin_holding_IgnoreCpu(c, l) == locked[l] = 1

\* spin_holding(): lock->locked && (lock->cpu == my_cpu())
spin_holding(c, l) == locked[l] = 1 /\ lock_cpu[l] = c

\* An irq_save that records the interrupt flag at every call
irq_save_AlwaysRecord(c) ==
  /\ irq_enabled' = [irq_enabled EXCEPT ![c] = FALSE]
  /\ irq_flags' = [irq_flags EXCEPT ![c] = irq_enabled[c]]
  /\ irq_save_count' = [irq_save_count EXCEPT ![c] = @ + 1]

\* irq_save(): disable the interrupts; at depth 0 record whether they were
\* enabled; depth + 1
irq_save(c) ==
  /\ irq_enabled' = [irq_enabled EXCEPT ![c] = FALSE]
  /\ irq_flags' = [irq_flags EXCEPT ![c] =
                     IF irq_save_count[c] = 0 THEN irq_enabled[c] ELSE @]
  /\ irq_save_count' = [irq_save_count EXCEPT ![c] = @ + 1]

\* irq_restore(): depth - 1; at depth 0 enable the interrupts if they were
\* enabled before the first irq_save()
irq_restore(c) ==
  /\ irq_save_count' = [irq_save_count EXCEPT ![c] = @ - 1]
  /\ irq_enabled' = [irq_enabled EXCEPT ![c] =
                       IF irq_save_count[c] = 1 THEN irq_flags[c] ELSE @]
  /\ irq_flags' = irq_flags

\* The spinlock specification leaves the other subsystems alone
SpinFrame ==
  UNCHANGED <<mboxVars, semVars, schedVars, procVars, queueVars, irqVars>>

SpinInit ==
  /\ locked = [l \in SLock |-> 0]
  /\ lock_cpu = [l \in SLock |-> NULL]
  /\ monitor = [c \in SCpu |-> NULL]
  /\ spc = [c \in SCpu |-> "idle"]
  /\ sarg = [c \in SCpu |-> NULL]
  /\ held = [c \in SCpu |-> {}]
  /\ irq_save_count = [c \in SCpu |-> 0]
  /\ irq_flags = [c \in SCpu |-> FALSE]
  /\ irq_enabled = [c \in SCpu |-> FALSE]
  /\ spanic = FALSE

\* A CPU calls spin_lock(l): irq_save() is its first statement
SpinLockCall(c, l) ==
  /\ ~spanic /\ spc[c] = "idle"
  /\ SpinFrame
  /\ irq_save(c)
  /\ sarg' = [sarg EXCEPT ![c] = l]
  /\ spc' = [spc EXCEPT ![c] = "lock_check"]
  /\ UNCHANGED <<locked, lock_cpu, monitor, held, spanic>>

\* if (spin_holding(lock)) panic(...)
SpinLockCheck(c) ==
  /\ ~spanic /\ spc[c] = "lock_check"
  /\ SpinFrame
  /\ IF spin_holding(c, sarg[c])
       THEN spanic' = TRUE /\ spc' = [spc EXCEPT ![c] = "panic"]
       ELSE spanic' = spanic /\ spc' = [spc EXCEPT ![c] = "ldrex"]
  /\ UNCHANGED <<locked, lock_cpu, monitor, sarg, held, irq_save_count, irq_flags,
                 irq_enabled>>

\* ldrex %1, [%0]; cmp %1, #0; bne 1b
SpinLdrex(c) ==
  /\ ~spanic /\ spc[c] = "ldrex"
  /\ SpinFrame
  /\ monitor' = [monitor EXCEPT ![c] = sarg[c]]
  /\ spc' = [spc EXCEPT ![c] = IF locked[sarg[c]] = 0 THEN "strex" ELSE "ldrex"]
  /\ UNCHANGED <<locked, lock_cpu, sarg, held, irq_save_count, irq_flags,
                 irq_enabled, spanic>>

\* A test-and-set whose store does not depend on the exclusive monitor
StrexSucceeds_NoMonitor(c) == TRUE

\* The store of strex: succeeds iff the exclusive monitor is still armed
StrexSucceeds(c) == monitor[c] = sarg[c]

\* strex %1, %2, [%0]; cmp %1, #0; bne 1b
SpinStrex(c) ==
  /\ ~spanic /\ spc[c] = "strex"
  /\ SpinFrame
  /\ IF StrexSucceeds(c)
       THEN /\ locked' = [locked EXCEPT ![sarg[c]] = 1]
            /\ monitor' = [d \in SCpu |->
                             IF monitor[d] = sarg[c] THEN NULL ELSE monitor[d]]
            /\ spc' = [spc EXCEPT ![c] = "set_cpu"]
       ELSE /\ spc' = [spc EXCEPT ![c] = "ldrex"]
            /\ UNCHANGED <<locked, monitor>>
  /\ UNCHANGED <<lock_cpu, sarg, held, irq_save_count, irq_flags,
                 irq_enabled, spanic>>

\* lock->cpu = my_cpu(); spin_save_caller_pcs(lock); return
SpinLockDone(c) ==
  /\ ~spanic /\ spc[c] = "set_cpu"
  /\ SpinFrame
  /\ lock_cpu' = [lock_cpu EXCEPT ![sarg[c]] = c]
  /\ held' = [held EXCEPT ![c] = @ \cup {sarg[c]}]
  /\ spc' = [spc EXCEPT ![c] = "idle"]
  /\ sarg' = [sarg EXCEPT ![c] = NULL]
  /\ UNCHANGED <<locked, monitor, irq_save_count, irq_flags,
                 irq_enabled, spanic>>

\* A CPU calls spin_unlock(l): if (!spin_holding(lock)) panic(...)
SpinUnlockCall(c, l) ==
  /\ ~spanic /\ spc[c] = "idle"
  /\ SpinFrame
  /\ sarg' = [sarg EXCEPT ![c] = l]
  /\ IF spin_holding(c, l)
       THEN /\ spc' = [spc EXCEPT ![c] = "clear_cpu"]
            /\ held' = [held EXCEPT ![c] = @ \ {l}]
            /\ spanic' = spanic
       ELSE /\ spc' = [spc EXCEPT ![c] = "panic"]
            /\ spanic' = TRUE
            /\ held' = held
  /\ UNCHANGED <<locked, lock_cpu, monitor, irq_save_count, irq_flags,
                 irq_enabled>>

\* lock->cpu = NULL; lock->pcs[0] = 0
SpinUnlockClearCpu(c) ==
  /\ ~spanic /\ spc[c] = "clear_cpu"
  /\ SpinFrame
  /\ lock_cpu' = [lock_cpu EXCEPT ![sarg[c]] = NULL]
  /\ spc' = [spc EXCEPT ![c] = "clear_locked"]
  /\ UNCHANGED <<locked, monitor, sarg, held, irq_save_count, irq_flags,
                 irq_enabled, spanic>>

\* str %1, [%0] with %1 = 0: the store clears every exclusive monitor on it
SpinUnlockStore(c) ==
  /\ ~spanic /\ spc[c] = "clear_locked"
  /\ SpinFrame
  /\ locked' = [locked EXCEPT ![sarg[c]] = 0]
  /\ monitor' = [d \in SCpu |->
                   IF monitor[d] = sarg[c] THEN NULL ELSE monitor[d]]
  /\ spc' = [spc EXCEPT ![c] = "unlock_irq"]
  /\ UNCHANGED <<lock_cpu, sarg, held, irq_save_count, irq_flags,
                 irq_enabled, spanic>>

\* irq_restore(); return
SpinUnlockDone(c) ==
  /\ ~spanic /\ spc[c] = "unlock_irq"
  /\ SpinFrame
  /\ irq_restore(c)
  /\ spc' = [spc EXCEPT ![c] = "idle"]
  /\ sarg' = [sarg EXCEPT ![c] = NULL]
  /\ UNCHANGED <<locked, lock_cpu, monitor, held, spanic>>

\* A CPU calls spin_holding(l) on its own: irq_save() is its first statement
SpinHoldingCall(c, l) ==
  /\ ~spanic /\ spc[c] = "idle"
  /\ SpinFrame
  /\ irq_save(c)
  /\ sarg' = [sarg EXCEPT ![c] = l]
  /\ spc' = [spc EXCEPT ![c] = "holding"]
  /\ UNCHANGED <<locked, lock_cpu, monitor, held, spanic>>

\* r = lock->locked && (lock->cpu == my_cpu()); irq_restore(); return r
SpinHoldingDone(c) ==
  /\ ~spanic /\ spc[c] = "holding"
  /\ SpinFrame
  /\ irq_restore(c)
  /\ spc' = [spc EXCEPT ![c] = "idle"]
  /\ sarg' = [sarg EXCEPT ![c] = NULL]
  /\ UNCHANGED <<locked, lock_cpu, monitor, held, spanic>>

\* cpu_irq_enable(), called by a CPU outside every irq_save() section
cpu_irq_enable(c) ==
  /\ ~spanic /\ spc[c] = "idle" /\ irq_save_count[c] = 0
  /\ ~irq_enabled[c]
  /\ SpinFrame
  /\ irq_enabled' = [irq_enabled EXCEPT ![c] = TRUE]
  /\ UNCHANGED <<locked, lock_cpu, monitor, spc, sarg, held, irq_save_count,
                 irq_flags, spanic>>

\* The CPU takes an interrupt: the hardware disables the interrupts
SpinIrqTaken(c) ==
  /\ ~spanic /\ spc[c] = "idle" /\ irq_enabled[c]
  /\ SpinFrame
  /\ irq_enabled' = [irq_enabled EXCEPT ![c] = FALSE]
  /\ UNCHANGED <<locked, lock_cpu, monitor, spc, sarg, held, irq_save_count,
                 irq_flags, spanic>>

SpinNext ==
  \E c \in SCpu :
    \/ \E l \in SLock : SpinLockCall(c, l)
    \/ \E l \in SLock : SpinHoldingCall(c, l)
    \/ SpinHoldingDone(c)
    \/ cpu_irq_enable(c)
    \/ SpinIrqTaken(c)
    \/ SpinLockCheck(c)
    \/ SpinLdrex(c)
    \/ SpinStrex(c)
    \/ SpinLockDone(c)
    \/ \E l \in SLock : SpinUnlockCall(c, l)
    \/ SpinUnlockClearCpu(c)
    \/ SpinUnlockStore(c)
    \/ SpinUnlockDone(c)

----------------------------------------------------------------------------
(* Error codes (errno.h) *)

ECHILD == 10
EAGAIN == 11
ENOMEM == 12
EINVAL == 22
ETIMEDOUT == 110

----------------------------------------------------------------------------
(* Scheduler helpers shared by the subsystems *)

\* task_priority_cmp(t1, t2): > 0 iff t1 has the higher priority (the
\* smaller priority value); pr maps tasks to priority values
task_priority_cmp(pr, t1, t2) == pr[t2] - pr[t1]

\* The scan of sched_wakeup_one: the task of the list it selects, NULL for
\* an empty list
RECURSIVE WakeupScan(_, _, _, _)
WakeupScan(pr, queue, i, highest) ==
  IF i > Len(queue) THEN highest
  ELSE WakeupScan(pr, queue, i + 1,
                  IF highest = NULL \/ task_priority_cmp(pr, queue[i], highest) > 0
                    THEN queue[i] ELSE highest)

\* list_remove(): the list without the task
ListRemove(queue, t) == SelectSeq(queue, LAMBDA x : x # t)

\* The members of a list
ListSet(queue) == {queue[i] : i \in 1..Len(queue)}

----------------------------------------------------------------------------
(* Mailbox: k_mailbox_* of unnamed/part_003.  One action is one critical     *)
(* section of the mailbox lock; a woken task resumes at any later time.    *)

\* The tasks that call the mailbox in the safety specifications, the task
\* that only sends in the fair one, and all of them
MActive == 1..MboxTasks
MboxSender == MboxTasks + 1
MTask == 1..MboxSender
Byte == {0, 1}

\* The priority of a mailbox task (tasks 1 and 3 share a priority)
mt_priority == [t \in MTask |-> t % 2]

\* ROUND_DOWN(x, n)
ROUND_DOWN(x, n) == x - (x % n)

\* The message buffer of a task that is not sending (its contents are
\* recorded in the histories)
NoMessage == << >>

\* The messages of a given size that the tasks send: the two alternating
\* byte patterns 0101... and 1010...
Messages(n) == {[i \in 1..n |-> (i + b) % 2] : b \in Byte}

\* An initialisation that puts buf_end at the end of the memory given
k_mailbox_init_common_NoRoundDown(msg_size, buf_size) ==
  [ buf_end   |-> buf_size,
    read_ptr  |-> 0,
    write_ptr |-> 0,
    msg_size  |-> msg_size,
    capacity  |-> buf_size \div msg_size,
    size      |-> 0,
    receivers |-> << >>,
    senders   |-> << >> ]

\* k_mailbox_init_common(mailbox, msg_size, start, buf_size), start = 0
k_mailbox_init_common(msg_size, buf_size) ==
  [ buf_end   |-> ROUND_DOWN(buf_size, msg_size),
    read_ptr  |-> 0,
    write_ptr |-> 0,
    msg_size  |-> msg_size,
    capacity  |-> buf_size \div msg_size,
    size      |-> 0,
    receivers |-> << >>,
    senders   |-> << >> ]

\* memmove(dst, message, msg_size) into the buffer
MemWrite(mem, ptr, message) ==
  [a \in DOMAIN mem |->
     IF a >= ptr /\ a < ptr + Len(message) THEN message[a - ptr + 1] ELSE mem[a]]

\* A copy that reads at buf_start instead of the read cursor
MemRead_FromBufStart(mem, ptr, n) == [i \in 1..n |-> mem[i - 1]]

\* memmove(message, src, msg_size) out of the buffer
MemRead(mem, ptr, n) == [i \in 1..n |-> mem[ptr + i - 1]]

\* A cursor that wraps one slot before buf_end
AdvanceCursor_WrapEarly(mb, ptr) ==
  IF ptr + 2 * mb.msg_size >= mb.buf_end THEN 0 ELSE ptr + mb.msg_size

\* A cursor advanced by one message, wrapping at buf_end
AdvanceCursor(mb, ptr) ==
  IF ptr + mb.msg_size >= mb.buf_end THEN 0 ELSE ptr + mb.msg_size

\* A send that calls the wake-up when it fills the box
TrySendLocked_WakeWhenFull(mb, mem, message) ==
  IF mb.size = mb.capacity
    THEN [mb |-> mb, mem |-> mem, r |-> -EAGAIN, wake |-> FALSE]
    ELSE [mb |-> [mb EXCEPT !.write_ptr = AdvanceCursor(mb, mb.write_ptr),
                            !.size = mb.size + 1],
          mem |-> MemWrite(mem, mb.write_ptr, message),
          r |-> 0,
          wake |-> (mb.size + 1 = mb.capacity)]

\* k_mailbox_try_send_locked without its wakeup: the mailbox, the buffer and
\* the return value; wake is TRUE iff _k_sched_wakeup_one(receivers) is called
TrySendLocked(mb, mem, message) ==
  IF mb.size = mb.capacity
    THEN [mb |-> mb, mem |-> mem, r |-> -EAGAIN, wake |-> FALSE]
    ELSE [mb |-> [mb EXCEPT !.write_ptr = AdvanceCursor(mb, mb.write_ptr),
                            !.size = mb.size + 1],
          mem |-> MemWrite(mem, mb.write_ptr, message),
          r |-> 0,
          wake |-> (mb.size = 0)]

\* k_mailbox_try_receive_locked without its wakeup: the mailbox, the message
\* read and the return value; wake is TRUE iff _k_sched_wakeup_one(senders)
\* is called
TryReceiveLocked(mb, mem, message) ==
  IF mb.size = 0
    THEN [mb |-> mb, msg |-> message, r |-> -EAGAIN, wake |-> FALSE]
    ELSE [mb |-> [mb EXCEPT !.read_ptr = AdvanceCursor(mb, mb.read_ptr),
                            !.size = mb.size - 1],
          msg |-> MemRead(mem, mb.read_ptr, mb.msg_size),
          r |-> 0,
          wake |-> (mb.size = mb.capacity)]

\* k_mailbox_init (static = TRUE) or k_mailbox_create of a mailbox with a
\* message size of MS and a buffer size of BS
MboxInitWith(MS, BS, static) ==
  /\ \E ms \in MS : \E bs \in BS :
       /\ mailbox = k_mailbox_init_common(ms, bs)
       /\ mt_msg = [t \in MTask |-> NoMessage]
  /\ \E st \in static : mb_pool = IF st THEN "static" ELSE "live"
  /\ mb_mem = [a \in 0..(MaxBufSize - 1) |-> 0]
  /\ mt_state = [t \in MTask |-> "run"]
  /\ mt_op = [t \in MTask |-> "none"]
  /\ mt_timer = [t \in MTask |-> FALSE]
  /\ mt_sleep_result = [t \in MTask |-> 0]
  /\ mt_ret = [t \in MTask |-> 0]
  /\ mb_sent = << >>
  /\ mb_rcvd = << >>

MboxInit == MboxInitWith(1..MaxMsgSize, 1..MaxBufSize, {TRUE})

\* The state of the mailbox variables in the other specifications
MboxQuiet ==
  /\ mailbox = k_mailbox_init_common(1, 1)
  /\ mb_pool = "static"
  /\ mt_msg = [t \in MTask |-> NoMessage]
  /\ mb_mem = [a \in 0..(MaxBufSize - 1) |-> 0]
  /\ mt_state = [t \in MTask |-> "run"]
  /\ mt_op = [t \in MTask |-> "none"]
  /\ mt_timer = [t \in MTask |-> FALSE]
  /\ mt_sleep_result = [t \in MTask |-> 0]
  /\ mt_ret = [t \in MTask |-> 0]
  /\ mb_sent = << >>
  /\ mb_rcvd = << >>

\* The mailbox specification leaves the other subsystems alone
MboxOtherFrame ==
  UNCHANGED <<spinVars, semVars, schedVars, procVars, queueVars, irqVars>>
MboxFrame == MboxOtherFrame /\ UNCHANGED mb_pool

\* The mailbox object is one that callers may pass to the mailbox calls
MbUsable == mb_pool \in {"static", "live"}

\* A wake-up that finds nobody to wake
MbWakeupOne_Nobody(list) == [list |-> list, woken |-> NULL]

\* _k_sched_wakeup_one(list, result) on a mailbox wait list: the list after
\* it, and the task made Ready (NULL if the list was empty)
MbWakeupOne(list) ==
  LET t == WakeupScan(mt_priority, list, 1, NULL)
  IN [list |-> IF t = NULL THEN list ELSE ListRemove(list, t), woken |-> t]

\* The effect of waking the set of tasks W with the given result
MbMakeReady(state, W) == [t \in MTask |-> IF t \in W THEN "ready" ELSE state[t]]
MbSetResult(res, W, result) == [t \in MTask |-> IF t \in W THEN result ELSE res[t]]
MbStopTimer(tm, W) == [t \in MTask |-> IF t \in W THEN FALSE ELSE tm[t]]

\* The body shared by a send attempt of task t: try_send_locked with its
\* wakeup; on -EAGAIN the task sleeps on senders iff block
MbSendAttempt(t, message, block, timeout) ==
  LET res == TrySendLocked(mailbox, mb_mem, message)
      wk  == IF res.wake THEN MbWakeupOne(res.mb.receivers)
             ELSE [list |-> res.mb.receivers, woken |-> NULL]
      W   == {wk.woken} \ {NULL}
  IN /\ mb_mem' = res.mem
     /\ mb_sent' = IF res.r = 0 THEN Append(mb_sent, message) ELSE mb_sent
     /\ mb_rcvd' = mb_rcvd
     /\ IF res.r = 0 \/ ~block
          THEN /\ mailbox' = [res.mb EXCEPT !.receivers = wk.list]
               /\ mt_msg' = [mt_msg EXCEPT ![t] = NoMessage]
               /\ mt_state' = [MbMakeReady(mt_state, W) EXCEPT ![t] = "run"]
               /\ mt_op' = [mt_op EXCEPT ![t] = "none"]
               /\ mt_ret' = [mt_ret EXCEPT ![t] = res.r]
               /\ mt_timer' = [mt_timer EXCEPT ![t] = FALSE]
               /\ mt_sleep_result' = MbSetResult(mt_sleep_result, W, 0)
          ELSE /\ mailbox' = [res.mb EXCEPT !.senders = Append(@, t)]
               /\ mt_msg' = [mt_msg EXCEPT ![t] = message]
               /\ mt_state' = [mt_state EXCEPT ![t] = "sleep"]
               /\ mt_op' = [mt_op EXCEPT ![t] = "send"]
               /\ mt_timer' = [mt_timer EXCEPT ![t] = timeout]
               /\ UNCHANGED <<mt_ret, mt_sleep_result>>

\* The body shared by a receive attempt of task t: try_receive_locked with
\* its wakeup; on -EAGAIN the task sleeps on receivers iff block
MbReceiveAttempt(t, block, timeout) ==
  LET res == TryReceiveLocked(mailbox, mb_mem, NoMessage)
      wk  == IF res.wake THEN MbWakeupOne(res.mb.senders)
             ELSE [list |-> res.mb.senders, woken |-> NULL]
      W   == {wk.woken} \ {NULL}
  IN /\ mb_mem' = mb_mem
     /\ mb_sent' = mb_sent
     /\ mb_rcvd' = IF res.r = 0 THEN Append(mb_rcvd, res.msg) ELSE mb_rcvd
     /\ mt_msg' = mt_msg
     /\ IF res.r = 0 \/ ~block
          THEN /\ mailbox' = [res.mb EXCEPT !.senders = wk.list]
               /\ mt_state' = [MbMakeReady(mt_state, W) EXCEPT ![t] = "run"]
               /\ mt_op' = [mt_op EXCEPT ![t] = "none"]
               /\ mt_ret' = [mt_ret EXCEPT ![t] = res.r]
               /\ mt_timer' = [mt_timer EXCEPT ![t] = FALSE]
               /\ mt_sleep_result' = MbSetResult(mt_sleep_result, W, 0)
          ELSE /\ mailbox' = [res.mb EXCEPT !.receivers = Append(@, t)]
               /\ mt_state' = [mt_state EXCEPT ![t] = "sleep"]
               /\ mt_op' = [mt_op EXCEPT ![t] = "recv"]
               /\ mt_timer' = [mt_timer EXCEPT ![t] = timeout]
               /\ UNCHANGED <<mt_ret, mt_sleep_result>>

\* k_mailbox_try_send(mailbox, message)
k_mailbox_try_send(t, message) ==
  /\ mt_state[t] = "run" /\ MbUsable /\ Len(mb_sent) < MaxSends
  /\ MboxFrame
  /\ MbSendAttempt(t, message, FALSE, FALSE)

\* k_mailbox_try_receive(mailbox, message)
k_mailbox_try_receive(t) ==
  /\ mt_state[t] = "run" /\ MbUsable
  /\ MboxFrame
  /\ MbReceiveAttempt(t, FALSE, FALSE)

\* k_mailbox_timed_send(mailbox, message, timeout) up to its return or its
\* first sleep
k_mailbox_timed_send(t, message, timeout) ==
  /\ mt_state[t] = "run" /\ MbUsable /\ Len(mb_sent) < MaxSends
  /\ MboxFrame
  /\ MbSendAttempt(t, message, TRUE, timeout)

\* k_mailbox_timed_receive(mailbox, message, timeout) up to its return or
\* its first sleep
k_mailbox_timed_receive(t, timeout) ==
  /\ mt_state[t] = "run" /\ MbUsable
  /\ MboxFrame
  /\ MbReceiveAttempt(t, TRUE, timeout)

\* k_spinlock_acquire / k_spinlock_release of mailbox->lock by a task that
\* comes back from its sleep: once the object is back in the pool the lock
\* is in freed memory, and the task gets through or does not
MbLockAccess(pool) == IF pool = "free" THEN {"ok", "fault"} ELSE {"ok"}

\* A woken task returns from _k_sched_sleep with the mailbox lock held:
\* if (r < 0) break; otherwise the loop tries again
MbSleepReturn(t) ==
  /\ mt_state[t] = "ready"
  /\ MboxFrame
  /\ \E access \in MbLockAccess(mb_pool) :
       IF access = "fault"
         THEN /\ mt_state' = [mt_state EXCEPT ![t] = "fault"]
              /\ UNCHANGED <<mailbox, mb_mem, mt_op, mt_msg, mt_timer,
                             mt_sleep_result, mt_ret, mb_sent, mb_rcvd>>
       ELSE IF mt_sleep_result[t] < 0
         THEN /\ mt_state' = [mt_state EXCEPT ![t] = "run"]
              /\ mt_op' = [mt_op EXCEPT ![t] = "none"]
              /\ mt_ret' = [mt_ret EXCEPT ![t] = mt_sleep_result[t]]
              /\ mt_timer' = [mt_timer EXCEPT ![t] = FALSE]
              /\ mt_msg' = [mt_msg EXCEPT ![t] = NoMessage]
              /\ UNCHANGED <<mailbox, mb_mem, mt_sleep_result, mb_sent,
                             mb_rcvd>>
       ELSE IF mt_op[t] = "send"
         THEN MbSendAttempt(t, mt_msg[t], TRUE, mt_timer[t])
       ELSE MbReceiveAttempt(t, TRUE, mt_timer[t])

\* task_sleep_callback: the sleep timer of a sleeping task fires
MbSleepTimeout(t) ==
  /\ mt_state[t] = "sleep" /\ mt_timer[t]
  /\ MboxFrame
  /\ mailbox' = [mailbox EXCEPT !.receivers = ListRemove(@, t),
                                !.senders = ListRemove(@, t)]
  /\ mt_state' = [mt_state EXCEPT ![t] = "ready"]
  /\ mt_sleep_result' = [mt_sleep_result EXCEPT ![t] = -ETIMEDOUT]
  /\ UNCHANGED <<mb_mem, mt_op, mt_msg, mt_timer, mt_ret, mb_sent, mb_rcvd>>

\* k_mailbox_fini_common: _k_sched_wakeup_all(receivers, -EINVAL);
\* _k_sched_wakeup_all(senders, -EINVAL)
k_mailbox_fini_common(t) ==
  LET W == ListSet(mailbox.receivers) \cup ListSet(mailbox.senders)
  IN /\ mailbox' = [mailbox EXCEPT !.receivers = << >>, !.senders = << >>]
     /\ mt_sleep_result' = MbSetResult(mt_sleep_result, W, -EINVAL)
     /\ mt_state' = [MbMakeReady(mt_state, W) EXCEPT ![t] =
                       IF mb_pool = "static" THEN "run" ELSE "destroying"]

\* k_mailbox_destroy up to the release of the mailbox lock: the waiters are
\* woken with -EINVAL and the buffer is freed
k_mailbox_destroy(t) ==
  /\ mt_state[t] = "run" /\ mb_pool = "live"
  /\ MboxOtherFrame
  /\ k_mailbox_fini_common(t)
  /\ mb_pool' = "destroyed"
  /\ UNCHANGED <<mb_mem, mt_op, mt_msg, mt_timer, mt_ret, mb_sent, mb_rcvd>>

\* k_mailbox_destroy: k_object_pool_put(k_mailbox_pool, mailbox)
MbPoolPut(t) ==
  /\ mt_state[t] = "destroying" /\ mb_pool = "destroyed"
  /\ MboxOtherFrame
  /\ mb_pool' = "free"
  /\ mt_state' = [mt_state EXCEPT ![t] = "run"]
  /\ UNCHANGED <<mailbox, mb_mem, mt_op, mt_msg, mt_timer, mt_sleep_result,
                 mt_ret, mb_sent, mb_rcvd>>

\* k_mailbox_fini: k_mailbox_fini_common wakes every waiter with -EINVAL
k_mailbox_fini(t) ==
  /\ mt_state[t] = "run" /\ mb_pool = "static"
  /\ mailbox.receivers # << >> \/ mailbox.senders # << >>
  /\ MboxFrame
  /\ k_mailbox_fini_common(t)
  /\ mt_ret' = [mt_ret EXCEPT ![t] = 0]
  /\ UNCHANGED <<mb_mem, mt_op, mt_msg, mt_timer, mb_sent, mb_rcvd>>

\* Tasks that use only the non-blocking calls
MboxTryNext ==
  \E t \in MActive :
    \/ \E m \in Messages(mailbox.msg_size) : k_mailbox_try_send(t, m)
    \/ k_mailbox_try_receive(t)

\* Tasks that use the non-blocking and the blocking calls
MboxNext ==
  \E t \in MActive :
    \/ \E m \in Messages(mailbox.msg_size) :
         Len(mb_sent) < MaxWaitSends /\ k_mailbox_try_send(t, m)
    \/ k_mailbox_try_receive(t)
    \/ \E m \in Messages(mailbox.msg_size) : \E to \in BOOLEAN :
         Len(mb_sent) < MaxWaitSends /\ k_mailbox_timed_send(t, m, to)
    \/ \E to \in BOOLEAN : k_mailbox_timed_receive(t, to)
    \/ MbSleepReturn(t)
    \/ MbSleepTimeout(t)
    \/ k_mailbox_fini(t)
    \/ k_mailbox_destroy(t)
    \/ MbPoolPut(t)

----------------------------------------------------------------------------
(* Semaphore: k_semaphore_get / k_semaphore_put, called by the interrupt    *)
(* threads of interrupt.c and by sys_arch_sem_wait.  One action is one      *)
(* critical section of the semaphore's lock; the tasks are the tasks of the *)
(* mailbox section and sleep and wake as they do there.                     *)

SemInit ==
  \E n \in 0..MaxSemCount :
    /\ semaphore = [count |-> n, queue |-> << >>]
    /\ sem_initial = n
    /\ sem_puts = 0
    /\ sem_gets = 0
    /\ sem_slept = [t \in MTask |-> FALSE]

\* The state of the semaphore variables in the other specifications
SemQuiet ==
  /\ semaphore = [count |-> 0, queue |-> << >>]
  /\ sem_initial = 0
  /\ sem_puts = 0
  /\ sem_gets = 0
  /\ sem_slept = [t \in MTask |-> FALSE]

SemFrame ==
  UNCHANGED <<spinVars, schedVars, procVars, queueVars, irqVars, mailbox, mb_pool,
              mb_mem, mt_msg, mb_sent, mb_rcvd>>

\* get under the semaphore's lock: a positive counter is decremented and the
\* call returns 0; otherwise the task sleeps on the list, with its timer
\* armed if it passed a timeout
SemGetAttempt(t, timeout, slept) ==
  IF semaphore.count > 0
    THEN /\ semaphore' = [semaphore EXCEPT !.count = @ - 1]
         /\ sem_gets' = sem_gets + 1
         /\ mt_state' = [mt_state EXCEPT ![t] = "run"]
         /\ mt_op' = [mt_op EXCEPT ![t] = "none"]
         /\ mt_ret' = [mt_ret EXCEPT ![t] = 0]
         /\ mt_timer' = [mt_timer EXCEPT ![t] = FALSE]
         /\ sem_slept' = [sem_slept EXCEPT ![t] = slept]
         /\ UNCHANGED mt_sleep_result
    ELSE /\ semaphore' = [semaphore EXCEPT !.queue = Append(@, t)]
         /\ mt_state' = [mt_state EXCEPT ![t] = "sleep"]
         /\ mt_op' = [mt_op EXCEPT ![t] = "get"]
         /\ mt_timer' = [mt_timer EXCEPT ![t] = timeout]
         /\ sem_slept' = [sem_slept EXCEPT ![t] = TRUE]
         /\ UNCHANGED <<mt_ret, mt_sleep_result, sem_gets>>

\* k_semaphore_get(sem) of interrupt_thread_entry (no timeout) and
\* ksem_get(sem, timeout, 1) of sys_arch_sem_wait, up to the return or the
\* first sleep
k_semaphore_get(t, timeout) ==
  /\ mt_state[t] = "run"
  /\ SemFrame
  /\ SemGetAttempt(t, timeout, FALSE)
  /\ UNCHANGED <<sem_initial, sem_puts>>

\* k_semaphore_put(sem) of interrupt_thread_notify and ksem_put of
\* sys_sem_signal: the counter is incremented and, if it was zero, one
\* sleeper is woken with result 0
k_semaphore_put(t) ==
  LET wk == IF semaphore.count = 0 THEN MbWakeupOne(semaphore.queue)
            ELSE [list |-> semaphore.queue, woken |-> NULL]
      W  == {wk.woken} \ {NULL}
  IN /\ mt_state[t] = "run" /\ sem_puts < MaxPuts
     /\ SemFrame
     /\ semaphore' = [count |-> semaphore.count + 1, queue |-> wk.list]
     /\ sem_puts' = sem_puts + 1
     /\ mt_state' = MbMakeReady(mt_state, W)
     /\ mt_sleep_result' = MbSetResult(mt_sleep_result, W, 0)
     /\ mt_ret' = [mt_ret EXCEPT ![t] = 0]
     /\ UNCHANGED <<mt_op, mt_timer, sem_initial, sem_gets, sem_slept>>

\* A woken task returns from its sleep with the semaphore's lock held: a
\* negative result is returned and the counter is left alone, otherwise the
\* task looks at the counter again
SemSleepReturn(t) ==
  /\ mt_state[t] = "ready" /\ mt_op[t] = "get"
  /\ SemFrame
  /\ IF mt_sleep_result[t] < 0
       THEN /\ mt_state' = [mt_state EXCEPT ![t] = "run"]
            /\ mt_op' = [mt_op EXCEPT ![t] = "none"]
            /\ mt_ret' = [mt_ret EXCEPT ![t] = mt_sleep_result[t]]
            /\ mt_timer' = [mt_timer EXCEPT ![t] = FALSE]
            /\ UNCHANGED <<semaphore, mt_sleep_result, sem_gets, sem_slept>>
       ELSE SemGetAttempt(t, mt_timer[t], TRUE)
  /\ UNCHANGED <<sem_initial, sem_puts>>

\* task_sleep_callback: the sleep timer of a task sleeping in get fires
SemSleepTimeout(t) ==
  /\ mt_state[t] = "sleep" /\ mt_op[t] = "get" /\ mt_timer[t]
  /\ SemFrame
  /\ semaphore' = [semaphore EXCEPT !.queue = ListRemove(@, t)]
  /\ mt_state' = [mt_state EXCEPT ![t] = "ready"]
  /\ mt_sleep_result' = [mt_sleep_result EXCEPT ![t] = -ETIMEDOUT]
  /\ UNCHANGED <<mt_op, mt_timer, mt_ret, sem_initial, sem_puts, sem_gets,
                 sem_slept>>

SemNext ==
  \E t \in MTask :
    \/ \E timeout \in BOOLEAN : k_semaphore_get(t, timeout)
    \/ k_semaphore_put(t)
    \/ SemSleepReturn(t)
    \/ SemSleepTimeout(t)

----------------------------------------------------------------------------
(* Scheduler: sched_* and task_* of unnamed/part_003.  A step of a CPU is   *)
(* the code it runs from one spinlock acquisition, context switch or       *)
(* interrupt boundary to the next.                                         *)

KCpu == 1..SchedCpus
KTask == 1..SchedTasks
QTask == 1..RunqTasks

\* TASK_MAX_PRIORITIES of the model, and the priority each task is created
\* with (task 2 has the highest priority, the other tasks share the lowest)
TASK_MAX_PRIORITIES == 2
task_priority == [t \in KTask \cup QTask |-> t % 2]

\* The values a waker passes as the result of the sleep
WakeResults == {0, -EINVAL}

\* A spinlock that is free, and one that CPU c holds
LockFree == [locked |-> 0, cpu |-> NULL]
LockHeldBy(c) == [locked |-> 1, cpu |-> c]

\* spin_lock(l) on CPU c: panics if c holds l, spins while another CPU does
SpinLockOutcome(l, c) ==
  IF l.locked = 1 /\ l.cpu = c THEN "panic"
  ELSE IF l.locked = 0 THEN "ok" ELSE "spin"

\* spin_unlock(l) on CPU c: panics unless c holds l
SpinUnlockOutcome(l, c) ==
  IF l.locked = 1 /\ l.cpu = c THEN "ok" ELSE "panic"

\* The scheduler data that sched_enqueue, sched_wakeup_* and sched_may_yield
\* work on, as one record
SchedData ==
  [rq |-> sched_queue, st |-> task_state, fl |-> task_flags,
   sr |-> task_sleep_result, wq |-> wait_queue, wb |-> woken_by]

SetSchedData(sd) ==
  /\ sched_queue' = sd.rq
  /\ task_state' = sd.st
  /\ task_flags' = sd.fl
  /\ task_sleep_result' = sd.sr
  /\ wait_queue' = sd.wq
  /\ woken_by' = sd.wb

\* An enqueue that links the task without making it Ready
sched_enqueue_KeepState(sd, th) ==
  [sd EXCEPT !.rq[task_priority[th]] = Append(@, th)]

\* sched_enqueue(th): th->state = READY; list_add_back(&sched_queue[prio])
sched_enqueue(sd, th) ==
  [sd EXCEPT !.st[th] = "READY",
             !.rq[task_priority[th]] = Append(@, th)]

\* The index of the first non-empty run queue, TASK_MAX_PRIORITIES if none
RECURSIVE FirstNonEmpty(_, _)
FirstNonEmpty(rq, i) ==
  IF i >= TASK_MAX_PRIORITIES THEN TASK_MAX_PRIORITIES
  ELSE IF rq[i] # << >> THEN i ELSE FirstNonEmpty(rq, i + 1)

\* A dequeue that takes the task at the back of the queue
sched_dequeue_Back(rq) ==
  LET i == FirstNonEmpty(rq, 0)
  IN IF i = TASK_MAX_PRIORITIES
       THEN [task |-> NULL, rq |-> rq]
       ELSE [task |-> rq[i][Len(rq[i])],
             rq |-> [rq EXCEPT ![i] = SubSeq(@, 1, Len(@) - 1)]]

\* sched_dequeue(): the task removed (NULL if none) and the run queues left
sched_dequeue(rq) ==
  LET i == FirstNonEmpty(rq, 0)
  IN IF i = TASK_MAX_PRIORITIES
       THEN [task |-> NULL, rq |-> rq]
       ELSE [task |-> Head(rq[i]), rq |-> [rq EXCEPT ![i] = Tail(@)]]

\* A callback that leaves the task linked into the wait list
RemoveFromWaitQueue_Keep(sd, t) == sd

\* list_remove(&task->link) for a task that may be on the wait list Q (a
\* task that is on no list is left alone)
RemoveFromWaitQueue(sd, t) == [sd EXCEPT !.wq = ListRemove(@, t)]

\* A decision that sets the flag whenever it does not yield
MayYieldDecision_FlagOtherwise(my_task, nest, candidate) ==
  IF my_task = NULL THEN "none"
  ELSE IF task_priority_cmp(task_priority, candidate, my_task) > 0 /\ nest = 0
    THEN "yield" ELSE "flag"

\* The decision of sched_may_yield(candidate) on a CPU whose current task is
\* my_task and whose isr_nesting is nest: "yield", "flag" or "none"
MayYieldDecision(my_task, nest, candidate) ==
  IF my_task # NULL /\ task_priority_cmp(task_priority, candidate, my_task) > 0
    THEN IF nest > 0 THEN "flag" ELSE "yield"
    ELSE "none"

\* sched_may_yield(candidate) up to its context switch: the scheduler data
\* after it, and whether the CPU yields
sched_may_yield(sd, my_task, nest, candidate) ==
  LET d == MayYieldDecision(my_task, nest, candidate)
  IN IF d = "yield" THEN [sd |-> sched_enqueue(sd, my_task), yielded |-> TRUE]
     ELSE IF d = "flag"
       THEN [sd |-> [sd EXCEPT !.fl[my_task] = TRUE], yielded |-> FALSE]
       ELSE [sd |-> sd, yielded |-> FALSE]

\* CPU c runs the code of its current task (not the scheduler, not an ISR)
RunsTask(c) ==
  /\ kpanic = "" /\ cpu_ctx[c] = "switched" /\ cpu_isr[c] = "none"
  /\ cpu_task[c] # NULL /\ ~tisr[cpu_task[c]]

\* CPU c runs its scheduler context
RunsScheduler(c) ==
  kpanic = "" /\ cpu_ctx[c] # "switched" /\ cpu_isr[c] = "none"

\* The scheduler specification leaves the other subsystems alone
\* The scheduler leaves the other subsystems alone, and only the entry and
\* the exit of an ISR change the stack of interrupted ISRs
OtherFrame ==
  UNCHANGED <<spinVars, mboxVars, semVars, procVars, queueVars, irqVars>>
IsrFrame == OtherFrame /\ UNCHANGED <<cpu_next, task_freed, task_last_cpu>>
CleanupFrame == OtherFrame /\ UNCHANGED isr_stack
SchedFrame ==
  OtherFrame /\ UNCHANGED <<isr_stack, cpu_next, task_freed, task_last_cpu>>

\* panic(): the kernel halts
Panic(msg) ==
  /\ kpanic' = msg
  /\ UNCHANGED <<sched_queue, sched_lock, user_lock, wait_queue, cpu_task,
                 cpu_ctx, cpu_isr, isr_nesting, cpu_irq_count, task_state,
                 task_flags, task_sleep_result, task_cpu, task_timer, tpc,
                 tisr, targ, woken_by, sleep_ret>>

NoArgs == [queue |-> FALSE, timeout |-> FALSE, result |-> 0]

\* What ended the current sleep of a task, and the result it recorded
NotWoken == [by |-> "none", r |-> 0]

\* The state when the CPUs enter sched_start: every task has been created
\* (Suspended), and task 1 has been resumed
SchedInit ==
  /\ sched_queue = [i \in 0..(TASK_MAX_PRIORITIES - 1) |->
                      IF i = task_priority[1] THEN <<1>> ELSE << >>]
  /\ sched_lock = LockFree
  /\ user_lock = LockFree
  /\ wait_queue = << >>
  /\ cpu_task = [c \in KCpu |-> NULL]
  /\ cpu_ctx = [c \in KCpu |-> "start"]
  /\ cpu_isr = [c \in KCpu |-> "none"]
  /\ isr_stack = [c \in KCpu |-> << >>]
  /\ cpu_next = [c \in KCpu |-> NULL]
  /\ task_freed = [t \in KTask |-> 0]
  /\ task_last_cpu = [t \in KTask |-> NULL]
  /\ isr_nesting = [c \in KCpu |-> 0]
  /\ cpu_irq_count = [c \in KCpu |-> 0]
  /\ task_state = [t \in KTask |-> IF t = 1 THEN "READY" ELSE "SUSPENDED"]
  /\ task_flags = [t \in KTask |-> FALSE]
  /\ task_sleep_result = [t \in KTask |-> 0]
  /\ task_cpu = [t \in KTask |-> NULL]
  /\ task_timer = [t \in KTask |-> FALSE]
  /\ tpc = [t \in KTask |-> "entry"]
  /\ tisr = [t \in KTask |-> FALSE]
  /\ targ = [t \in KTask |-> NoArgs]
  /\ woken_by = [t \in KTask |-> NotWoken]
  /\ sleep_ret = [t \in KTask |-> 0]
  /\ kpanic = ""

\* The state of the scheduler variables in the other specifications
SchedQuiet == SchedInit

\* sched_start / the idle loop / after the cleanup: sched_lock()
SchedLock(c) ==
  /\ RunsScheduler(c) /\ cpu_ctx[c] \in {"start", "idle", "relock"}
  /\ SchedFrame
  /\ SpinLockOutcome(sched_lock, c) = "ok"
  /\ sched_lock' = LockHeldBy(c)
  /\ cpu_irq_count' = [cpu_irq_count EXCEPT ![c] = @ + 1]
  /\ cpu_ctx' = [cpu_ctx EXCEPT ![c] = "loop"]
  /\ UNCHANGED <<sched_queue, user_lock, wait_queue, cpu_task, cpu_isr,
                 isr_nesting, task_state, task_flags, task_sleep_result,
                 task_cpu, task_timer, tpc, tisr, targ, woken_by, sleep_ret,
                 kpanic>>

\* sched_start, one iteration with a Ready task: dequeue it, mark it Running
\* and switch to it
SchedDispatch(c) ==
  LET d == sched_dequeue(sched_queue)
  IN /\ RunsScheduler(c) /\ cpu_ctx[c] = "loop"
     /\ d.task # NULL
     /\ SchedFrame
     /\ IF task_state[d.task] # "READY" THEN Panic("next->state == READY")
        ELSE /\ sched_queue' = d.rq
             /\ task_state' = [task_state EXCEPT ![d.task] = "RUNNING"]
             /\ task_cpu' = [task_cpu EXCEPT ![d.task] = c]
             /\ cpu_task' = [cpu_task EXCEPT ![c] = d.task]
             /\ cpu_ctx' = [cpu_ctx EXCEPT ![c] = "switched"]
             /\ UNCHANGED <<sched_lock, user_lock, wait_queue, cpu_isr,
                            isr_nesting, cpu_irq_count, task_flags,
                            task_sleep_result, task_timer, tpc, tisr, targ,
                            woken_by, sleep_ret, kpanic>>

\* sched_start, one iteration without a Ready task: sched_unlock(), enable
\* the interrupts and wait for one
SchedIdle(c) ==
  /\ RunsScheduler(c) /\ cpu_ctx[c] = "loop"
  /\ sched_dequeue(sched_queue).task = NULL
  /\ SchedFrame
  /\ IF SpinUnlockOutcome(sched_lock, c) = "panic" THEN Panic("sched_unlock")
     ELSE /\ sched_lock' = LockFree
          /\ cpu_irq_count' = [cpu_irq_count EXCEPT ![c] = @ - 1]
          /\ cpu_ctx' = [cpu_ctx EXCEPT ![c] = "idle"]
          /\ UNCHANGED <<sched_queue, user_lock, wait_queue, cpu_task,
                         cpu_isr, isr_nesting, task_state, task_flags,
                         task_sleep_result, task_cpu, task_timer, tpc, tisr,
                         targ, woken_by, sleep_ret, kpanic>>

\* A scheduler loop that cleans up every task that switches back to it
NeedsCleanup_Always(state) == TRUE

\* sched_start: if (next->state == TASK_STATE_DESTROYED)
NeedsCleanup(state) == state = "DESTROYED"

\* sched_start after context_switch returns: my_cpu->task = NULL,
\* next->cpu = NULL; a Destroyed task becomes None and the lock is released
\* for its cleanup
SchedSwitchedBack(c) ==
  LET next == cpu_task[c]
  IN /\ RunsScheduler(c) /\ cpu_ctx[c] = "returned"
     /\ CleanupFrame
     /\ cpu_task' = [cpu_task EXCEPT ![c] = NULL]
     /\ task_cpu' = [task_cpu EXCEPT ![next] = NULL]
     /\ task_last_cpu' = [task_last_cpu EXCEPT ![next] = c]
     /\ IF NeedsCleanup(task_state[next])
          THEN /\ task_state' = [task_state EXCEPT ![next] = "NONE"]
               /\ sched_lock' = LockFree
               /\ cpu_irq_count' = [cpu_irq_count EXCEPT ![c] = @ - 1]
               /\ cpu_ctx' = [cpu_ctx EXCEPT ![c] = "cleanup"]
               /\ cpu_next' = [cpu_next EXCEPT ![c] = next]
          ELSE /\ cpu_ctx' = [cpu_ctx EXCEPT ![c] = "loop"]
               /\ UNCHANGED <<task_state, sched_lock, cpu_irq_count, cpu_next>>
     /\ UNCHANGED <<sched_queue, user_lock, wait_queue, cpu_isr, isr_nesting,
                    task_flags, task_sleep_result, task_timer, tpc, tisr,
                    targ, woken_by, sleep_ret, kpanic, task_freed>>

\* sched_start: page_free_one(kva2page(next->kstack));
\* kmem_free(thread_cache, next): the kernel stack and the task object of
\* the exited task are freed
SchedCleanup(c) ==
  /\ RunsScheduler(c) /\ cpu_ctx[c] = "cleanup"
  /\ CleanupFrame
  /\ task_freed' = [task_freed EXCEPT ![cpu_next[c]] = @ + 1]
  /\ UNCHANGED task_last_cpu
  /\ cpu_next' = [cpu_next EXCEPT ![c] = NULL]
  /\ cpu_ctx' = [cpu_ctx EXCEPT ![c] = "relock"]
  /\ UNCHANGED <<sched_queue, sched_lock, user_lock, wait_queue, cpu_task,
                 cpu_isr, isr_nesting, cpu_irq_count, task_state, task_flags,
                 task_sleep_result, task_cpu, task_timer, tpc, tisr, targ,
                 woken_by, sleep_ret, kpanic>>

\* sched_unlock() of a task that resumes after a context switch, or that
\* starts in task_run: the position the task continues at
AfterUnlock(pc) ==
  CASE pc = "entry" -> "user"
    [] pc = "yield_ret" -> "user"
    [] pc = "resume_ret" -> "user"
    [] pc = "sleep_ret" -> "sleep_relock"
    [] pc = "wake_ret" -> "wake_done"
    [] OTHER -> pc

\* A sched_sleep that goes on to spin_lock(lock) without sched_unlock()
TaskSchedUnlock_SleepKeepsLock(c) ==
  LET t == cpu_task[c]
  IN /\ RunsTask(c)
     /\ tpc[t] \in {"entry", "yield_ret", "resume_ret", "sleep_ret"}
     /\ SchedFrame
     /\ IF SpinUnlockOutcome(sched_lock, c) = "panic" THEN Panic("sched_unlock")
        ELSE /\ sched_lock' = IF tpc[t] = "sleep_ret" THEN sched_lock
                               ELSE LockFree
             /\ cpu_irq_count' = [cpu_irq_count EXCEPT ![c] =
                                    IF tpc[t] = "sleep_ret" THEN @ ELSE @ - 1]
             /\ tpc' = [tpc EXCEPT ![t] = AfterUnlock(tpc[t])]
             /\ task_timer' = [task_timer EXCEPT ![t] =
                                 IF tpc[t] = "sleep_ret" THEN FALSE ELSE @]
             /\ UNCHANGED <<sched_queue, user_lock, wait_queue, cpu_task,
                            cpu_ctx, cpu_isr, isr_nesting, task_state,
                            task_flags, task_sleep_result, task_cpu, tisr,
                            targ, woken_by, sleep_ret, kpanic>>

\* task_run, or the return from sched_yield in task_yield, task_resume and
\* sched_sleep: sched_unlock() (sched_sleep stops the sleep timer first)
TaskSchedUnlock(c) ==
  LET t == cpu_task[c]
  IN /\ RunsTask(c)
     /\ tpc[t] \in {"entry", "yield_ret", "resume_ret", "sleep_ret"}
     /\ SchedFrame
     /\ IF SpinUnlockOutcome(sched_lock, c) = "panic" THEN Panic("sched_unlock")
        ELSE /\ sched_lock' = LockFree
             /\ cpu_irq_count' = [cpu_irq_count EXCEPT ![c] = @ - 1]
             /\ tpc' = [tpc EXCEPT ![t] = AfterUnlock(tpc[t])]
             /\ task_timer' = [task_timer EXCEPT ![t] =
                                 IF tpc[t] = "sleep_ret" THEN FALSE ELSE @]
             /\ UNCHANGED <<sched_queue, user_lock, wait_queue, cpu_task,
                            cpu_ctx, cpu_isr, isr_nesting, task_state,
                            task_flags, task_sleep_result, task_cpu, tisr,
                            targ, woken_by, sleep_ret, kpanic>>

\* A task_yield that switches to the scheduler without sched_lock()
task_yield_NoLock(c) ==
  LET t == cpu_task[c]
  IN /\ RunsTask(c) /\ tpc[t] = "user"
     /\ SchedFrame
     /\ SpinLockOutcome(sched_lock, c) = "ok"
     /\ SetSchedData(sched_enqueue(SchedData, t))
     /\ tpc' = [tpc EXCEPT ![t] = "yield_ret"]
     /\ cpu_ctx' = [cpu_ctx EXCEPT ![c] = "returned"]
     /\ UNCHANGED <<sched_lock, cpu_irq_count, user_lock, cpu_task, cpu_isr,
                    isr_nesting, task_cpu, task_timer, tisr, targ, sleep_ret,
                    kpanic>>

\* task_yield(): sched_lock(); sched_enqueue(current); sched_yield()
task_yield(c) ==
  LET t == cpu_task[c]
  IN /\ RunsTask(c) /\ tpc[t] = "user"
     /\ SchedFrame
     /\ SpinLockOutcome(sched_lock, c) = "ok"
     /\ sched_lock' = LockHeldBy(c)
     /\ cpu_irq_count' = [cpu_irq_count EXCEPT ![c] = @ + 1]
     /\ SetSchedData(sched_enqueue(SchedData, t))
     /\ tpc' = [tpc EXCEPT ![t] = "yield_ret"]
     /\ cpu_ctx' = [cpu_ctx EXCEPT ![c] = "returned"]
     /\ UNCHANGED <<user_lock, cpu_task, cpu_isr, isr_nesting, task_cpu,
                    task_timer, tisr, targ, sleep_ret, kpanic>>

\* task_exit(): sched_lock(); task_cleanup(task); sched_yield()
task_exit(c) ==
  LET t == cpu_task[c]
  IN /\ RunsTask(c) /\ tpc[t] = "user"
     /\ SchedFrame
     /\ SpinLockOutcome(sched_lock, c) = "ok"
     /\ sched_lock' = LockHeldBy(c)
     /\ cpu_irq_count' = [cpu_irq_count EXCEPT ![c] = @ + 1]
     /\ task_state' = [task_state EXCEPT ![t] = "DESTROYED"]
     /\ task_timer' = [task_timer EXCEPT ![t] = FALSE]
     /\ tpc' = [tpc EXCEPT ![t] = "exited"]
     /\ cpu_ctx' = [cpu_ctx EXCEPT ![c] = "returned"]
     /\ UNCHANGED <<sched_queue, user_lock, wait_queue, cpu_task, cpu_isr,
                    isr_nesting, task_flags, task_sleep_result, task_cpu,
                    tisr, targ, woken_by, sleep_ret, kpanic>>

\* task_resume(task): -EINVAL unless the task is Suspended; otherwise
\* sched_enqueue(task); sched_may_yield(task); sched_unlock()
task_resume(c, task) ==
  LET t == cpu_task[c]
      my == sched_may_yield(sched_enqueue(SchedData, task), t, isr_nesting[c],
                            task)
  IN /\ RunsTask(c) /\ tpc[t] = "user"
     /\ SchedFrame
     /\ SpinLockOutcome(sched_lock, c) = "ok"
     /\ IF task_state[task] # "SUSPENDED"
          THEN UNCHANGED schedVars
          ELSE /\ SetSchedData(my.sd)
               /\ IF my.yielded
                    THEN /\ sched_lock' = LockHeldBy(c)
                         /\ cpu_irq_count' = [cpu_irq_count EXCEPT ![c] = @ + 1]
                         /\ tpc' = [tpc EXCEPT ![t] = "resume_ret"]
                         /\ cpu_ctx' = [cpu_ctx EXCEPT ![c] = "returned"]
                    ELSE UNCHANGED <<sched_lock, cpu_irq_count, tpc, cpu_ctx>>
               /\ UNCHANGED <<user_lock, cpu_task, cpu_isr, isr_nesting,
                              task_cpu, task_timer, tisr, targ, sleep_ret,
                              kpanic>>

\* sched_wakeup_all(task_list, result) from the head of the list on, up to
\* its first context switch: every task taken off the list gets the result,
\* is enqueued and is offered to sched_may_yield
RECURSIVE sched_wakeup_all(_, _, _, _)
sched_wakeup_all(sd, my_task, nest, result) ==
  IF sd.wq = << >> THEN [sd |-> sd, yielded |-> FALSE]
  ELSE LET task == Head(sd.wq)
           woken == [sd EXCEPT !.wq = Tail(@), !.sr[task] = result,
                               !.wb[task] = [by |-> "wake", r |-> result]]
           my == sched_may_yield(sched_enqueue(woken, task), my_task, nest,
                                 task)
       IN IF my.yielded THEN my
          ELSE sched_wakeup_all(my.sd, my_task, nest, result)

\* The caller of sched_sleep takes its own lock first (as wchan_sleep's and
\* the mailbox's callers do): spin_lock(lock)
SleepCall(c, queue, timeout) ==
  LET t == cpu_task[c]
  IN /\ RunsTask(c) /\ tpc[t] = "user"
     /\ SchedFrame
     /\ SpinLockOutcome(user_lock, c) # "spin"
     /\ IF SpinLockOutcome(user_lock, c) = "panic"
          THEN Panic("already holding")
          ELSE /\ user_lock' = LockHeldBy(c)
               /\ cpu_irq_count' = [cpu_irq_count EXCEPT ![c] = @ + 1]
               /\ targ' = [targ EXCEPT ![t] = [queue |-> queue,
                                               timeout |-> timeout,
                                               result |-> 0]]
               /\ tpc' = [tpc EXCEPT ![t] = "sleep_call"]
               /\ UNCHANGED <<sched_queue, sched_lock, wait_queue, cpu_task,
                              cpu_ctx, cpu_isr, isr_nesting, task_state,
                              task_flags, task_sleep_result, task_cpu,
                              task_timer, tisr, woken_by, sleep_ret, kpanic>>

\* sched_sleep, lock != NULL: sched_lock()
SleepSchedLock(c) ==
  LET t == cpu_task[c]
  IN /\ RunsTask(c) /\ tpc[t] = "sleep_call"
     /\ SchedFrame
     /\ SpinLockOutcome(sched_lock, c) = "ok"
     /\ sched_lock' = LockHeldBy(c)
     /\ cpu_irq_count' = [cpu_irq_count EXCEPT ![c] = @ + 1]
     /\ tpc' = [tpc EXCEPT ![t] = "sleep_locked"]
     /\ UNCHANGED <<sched_queue, user_lock, wait_queue, cpu_task, cpu_ctx,
                    cpu_isr, isr_nesting, task_state, task_flags,
                    task_sleep_result, task_cpu, task_timer, tisr, targ,
                    woken_by, sleep_ret, kpanic>>

\* sched_sleep: spin_unlock(lock); start the timer if timeout != 0; the task
\* becomes Sleeping, is added to the queue if there is one, and yields
sched_sleep(c) ==
  LET t == cpu_task[c]
  IN /\ RunsTask(c) /\ tpc[t] = "sleep_locked"
     /\ SchedFrame
     /\ IF SpinUnlockOutcome(user_lock, c) = "panic"
          THEN Panic("cannot release")
          ELSE /\ user_lock' = LockFree
               /\ cpu_irq_count' = [cpu_irq_count EXCEPT ![c] = @ - 1]
               /\ task_timer' = [task_timer EXCEPT ![t] = targ[t].timeout]
               /\ task_state' = [task_state EXCEPT ![t] = "SLEEPING"]
               /\ wait_queue' = IF targ[t].queue THEN Append(wait_queue, t)
                                ELSE wait_queue
               /\ woken_by' = [woken_by EXCEPT ![t] = NotWoken]
               /\ tpc' = [tpc EXCEPT ![t] = "sleep_ret"]
               /\ cpu_ctx' = [cpu_ctx EXCEPT ![c] = "returned"]
               /\ UNCHANGED <<sched_queue, sched_lock, cpu_task, cpu_isr,
                              isr_nesting, task_flags, task_sleep_result,
                              task_cpu, tisr, targ, sleep_ret, kpanic>>

\* sched_sleep after sched_unlock(): spin_lock(lock), and the sleep returns
\* my_task->sleep_result
SleepRelock(c) ==
  LET t == cpu_task[c]
  IN /\ RunsTask(c) /\ tpc[t] = "sleep_relock"
     /\ SchedFrame
     /\ SpinLockOutcome(user_lock, c) # "spin"
     /\ IF SpinLockOutcome(user_lock, c) = "panic"
          THEN Panic("already holding")
          ELSE /\ user_lock' = LockHeldBy(c)
               /\ cpu_irq_count' = [cpu_irq_count EXCEPT ![c] = @ + 1]
               /\ sleep_ret' = [sleep_ret EXCEPT ![t] = task_sleep_result[t]]
               /\ tpc' = [tpc EXCEPT ![t] = "sleep_done"]
               /\ UNCHANGED <<sched_queue, sched_lock, wait_queue, cpu_task,
                              cpu_ctx, cpu_isr, isr_nesting, task_state,
                              task_flags, task_sleep_result, task_cpu,
                              task_timer, tisr, targ, woken_by, kpanic>>

\* The caller of sched_sleep or of sched_wakeup_all releases its own lock:
\* spin_unlock(lock)
UserUnlock(c) ==
  LET t == cpu_task[c]
  IN /\ RunsTask(c) /\ tpc[t] \in {"sleep_done", "wake_done"}
     /\ SchedFrame
     /\ IF SpinUnlockOutcome(user_lock, c) = "panic"
          THEN Panic("cannot release")
          ELSE /\ user_lock' = LockFree
               /\ cpu_irq_count' = [cpu_irq_count EXCEPT ![c] = @ - 1]
               /\ tpc' = [tpc EXCEPT ![t] = "user"]
               /\ UNCHANGED <<sched_queue, sched_lock, wait_queue, cpu_task,
                              cpu_ctx, cpu_isr, isr_nesting, task_state,
                              task_flags, task_sleep_result, task_cpu,
                              task_timer, tisr, targ, woken_by, sleep_ret,
                              kpanic>>

\* The caller of sched_wakeup_all takes its own lock first (as
\* wchan_wakeup_all's callers do): spin_lock(lock)
WakeCall(c, result) ==
  LET t == cpu_task[c]
  IN /\ RunsTask(c) /\ tpc[t] = "user"
     /\ SchedFrame
     /\ SpinLockOutcome(user_lock, c) # "spin"
     /\ IF SpinLockOutcome(user_lock, c) = "panic"
          THEN Panic("already holding")
          ELSE /\ user_lock' = LockHeldBy(c)
               /\ cpu_irq_count' = [cpu_irq_count EXCEPT ![c] = @ + 1]
               /\ targ' = [targ EXCEPT ![t] = [queue |-> TRUE,
                                               timeout |-> FALSE,
                                               result |-> result]]
               /\ tpc' = [tpc EXCEPT ![t] = "wake_call"]
               /\ UNCHANGED <<sched_queue, sched_lock, wait_queue, cpu_task,
                              cpu_ctx, cpu_isr, isr_nesting, task_state,
                              task_flags, task_sleep_result, task_cpu,
                              task_timer, tisr, woken_by, sleep_ret, kpanic>>

\* sched_lock(); sched_wakeup_all(queue, result); sched_unlock(): the loop
\* runs until the list is empty or sched_may_yield switches the waker out,
\* and a waker that is switched back in goes on with the loop
WakeupAll(c) ==
  LET t == cpu_task[c]
      w == sched_wakeup_all(SchedData, t, isr_nesting[c], targ[t].result)
  IN /\ RunsTask(c) /\ tpc[t] \in {"wake_call", "wake_loop"}
     /\ SchedFrame
     /\ IF tpc[t] = "wake_call"
          THEN SpinLockOutcome(sched_lock, c) = "ok"
          ELSE TRUE
     /\ IF tpc[t] = "wake_loop" /\ SpinUnlockOutcome(sched_lock, c) = "panic"
          THEN Panic("sched not locked")
          ELSE /\ SetSchedData(w.sd)
               /\ IF w.yielded
                    THEN /\ sched_lock' = LockHeldBy(c)
                         /\ cpu_irq_count' =
                              [cpu_irq_count EXCEPT ![c] =
                                 IF tpc[t] = "wake_call" THEN @ + 1 ELSE @]
                         /\ tpc' = [tpc EXCEPT ![t] = "wake_loop"]
                         /\ cpu_ctx' = [cpu_ctx EXCEPT ![c] = "returned"]
                    ELSE /\ sched_lock' = LockFree
                         /\ cpu_irq_count' =
                              [cpu_irq_count EXCEPT ![c] =
                                 IF tpc[t] = "wake_call" THEN @ ELSE @ - 1]
                         /\ tpc' = [tpc EXCEPT ![t] = "wake_done"]
                         /\ UNCHANGED cpu_ctx
               /\ UNCHANGED <<user_lock, cpu_task, cpu_isr, isr_nesting,
                              task_cpu, task_timer, tisr, targ, sleep_ret,
                              kpanic>>

\* A timer interrupt arrives on a CPU whose interrupts are enabled, in a
\* task, in the idle loop or in an ISR that it interrupts: sched_isr_enter()
sched_isr_enter(c) ==
  /\ kpanic = "" /\ cpu_irq_count[c] = 0
  /\ cpu_ctx[c] \in {"switched", "idle"}
  /\ isr_nesting[c] < MaxIsrNesting
  /\ \E t \in KTask : task_timer[t]
  /\ IsrFrame
  /\ isr_nesting' = [isr_nesting EXCEPT ![c] = @ + 1]
  /\ isr_stack' = [isr_stack EXCEPT ![c] =
                     IF cpu_isr[c] = "none" THEN @ ELSE Append(@, cpu_isr[c])]
  /\ cpu_isr' = [cpu_isr EXCEPT ![c] = "handler"]
  /\ UNCHANGED <<sched_queue, sched_lock, user_lock, wait_queue, cpu_task,
                 cpu_ctx, cpu_irq_count, task_state, task_flags,
                 task_sleep_result, task_cpu, task_timer, tpc, tisr, targ,
                 woken_by, sleep_ret, kpanic>>

\* A callback that enqueues the task whatever its state
task_sleep_callback_NoStateCheck(c, task) ==
  LET timed == [SchedData EXCEPT !.sr[task] = -ETIMEDOUT,
                                 !.wb[task] = [by |-> "timer",
                                               r |-> -ETIMEDOUT]]
      my == sched_may_yield(
              sched_enqueue(RemoveFromWaitQueue(timed, task), task),
              cpu_task[c], isr_nesting[c], task)
  IN /\ kpanic = "" /\ cpu_isr[c] = "handler"
     /\ task_timer[task]
     /\ SchedFrame
     /\ SpinLockOutcome(sched_lock, c) = "ok"
     /\ task_timer' = [task_timer EXCEPT ![task] = FALSE]
     /\ cpu_isr' = [cpu_isr EXCEPT ![c] = "exit"]
     /\ SetSchedData(my.sd)
     /\ UNCHANGED <<sched_lock, user_lock, cpu_task, cpu_ctx, isr_nesting,
                    cpu_irq_count, task_cpu, tpc, tisr, targ, sleep_ret,
                    kpanic>>

\* task_sleep_callback(task), run by the timer ISR for an expired sleep
\* timer: a Sleeping task gets -ETIMEDOUT, is unlinked and enqueued
task_sleep_callback(c, task) ==
  LET timed == [SchedData EXCEPT !.sr[task] = -ETIMEDOUT,
                                 !.wb[task] = [by |-> "timer",
                                               r |-> -ETIMEDOUT]]
      my == sched_may_yield(
              sched_enqueue(RemoveFromWaitQueue(timed, task), task),
              cpu_task[c], isr_nesting[c], task)
  IN /\ kpanic = "" /\ cpu_isr[c] = "handler"
     /\ task_timer[task]
     /\ SchedFrame
     /\ SpinLockOutcome(sched_lock, c) = "ok"
     /\ task_timer' = [task_timer EXCEPT ![task] = FALSE]
     /\ cpu_isr' = [cpu_isr EXCEPT ![c] = "exit"]
     /\ IF task_state[task] = "SLEEPING"
          THEN SetSchedData(my.sd)
          ELSE UNCHANGED <<sched_queue, task_state, task_flags,
                           task_sleep_result, wait_queue, woken_by>>
     /\ UNCHANGED <<sched_lock, user_lock, cpu_task, cpu_ctx, isr_nesting,
                    cpu_irq_count, task_cpu, tpc, tisr, targ, sleep_ret,
                    kpanic>>

\* A sched_isr_exit that decrements whatever the counter is
IsrExitNesting_NoCheck(nesting) == [panic |-> FALSE, nesting |-> nesting - 1]

\* sched_isr_exit(): if (isr_nesting <= 0) panic(..); --isr_nesting
IsrExitNesting(nesting) ==
  IF nesting <= 0 THEN [panic |-> TRUE, nesting |-> nesting]
  ELSE [panic |-> FALSE, nesting |-> nesting - 1]

\* An exit that switches a flagged task out at any depth
IsrExitYields_AnyDepth(sd, my_task, nesting) ==
  IF my_task # NULL /\ sd.fl[my_task] THEN my_task ELSE NULL

\* The task sched_isr_exit switches out, given the decremented isr_nesting:
\* the current task at the outermost exit if its reschedule flag is set,
\* NULL otherwise
IsrExitYields(sd, my_task, nesting) ==
  IF nesting = 0 /\ my_task # NULL /\ sd.fl[my_task] THEN my_task ELSE NULL

\* sched_isr_exit(), called at the end of an ISR or, by a caller that never
\* called sched_isr_enter, outside one: at the outermost exit a current task
\* whose reschedule flag is set is enqueued and switched out; otherwise
\* sched_unlock(), and an interrupted ISR goes on
sched_isr_exit(c) ==
  LET my_task == cpu_task[c]
      exit    == IsrExitNesting(isr_nesting[c])
      nesting == exit.nesting
      outer   == isr_stack[c]
  IN /\ kpanic = ""
     /\ \/ cpu_isr[c] = "exit"
        \/ cpu_isr[c] = "none" /\ cpu_ctx[c] \in {"switched", "idle"}
                               /\ cpu_irq_count[c] = 0
     /\ IsrFrame
     /\ SpinLockOutcome(sched_lock, c) = "ok"
     /\ IF exit.panic
          THEN Panic("isr_nesting <= 0") /\ UNCHANGED isr_stack
        ELSE /\ isr_nesting' = [isr_nesting EXCEPT ![c] = nesting]
             /\ cpu_isr' = [cpu_isr EXCEPT ![c] =
                              IF outer = << >> THEN "none"
                              ELSE outer[Len(outer)]]
             /\ isr_stack' = [isr_stack EXCEPT ![c] =
                                IF outer = << >> THEN outer
                                ELSE SubSeq(outer, 1, Len(outer) - 1)]
             /\ IF IsrExitYields(SchedData, my_task, nesting) # NULL
                  THEN /\ SetSchedData(sched_enqueue(
                            [SchedData EXCEPT !.fl[my_task] = FALSE],
                            my_task))
                       /\ sched_lock' = LockHeldBy(c)
                       /\ cpu_irq_count' = [cpu_irq_count EXCEPT ![c] = @ + 1]
                       /\ tisr' = [tisr EXCEPT ![my_task] = TRUE]
                       /\ cpu_ctx' = [cpu_ctx EXCEPT ![c] = "returned"]
                  ELSE UNCHANGED <<sched_queue, task_state, task_flags,
                                   task_sleep_result, wait_queue, woken_by,
                                   sched_lock, cpu_irq_count, tisr, cpu_ctx>>
             /\ UNCHANGED <<user_lock, cpu_task, task_cpu, task_timer, tpc,
                            targ, sleep_ret, kpanic>>

\* sched_isr_exit after its sched_yield returns (the interrupted task has
\* been dispatched again): sched_unlock()
IsrExitResume(c) ==
  LET t == cpu_task[c]
  IN /\ kpanic = "" /\ cpu_ctx[c] = "switched" /\ cpu_isr[c] = "none"
     /\ t # NULL /\ tisr[t]
     /\ SchedFrame
     /\ IF SpinUnlockOutcome(sched_lock, c) = "panic" THEN Panic("sched_unlock")
        ELSE /\ sched_lock' = LockFree
             /\ cpu_irq_count' = [cpu_irq_count EXCEPT ![c] = @ - 1]
             /\ tisr' = [tisr EXCEPT ![t] = FALSE]
             /\ UNCHANGED <<sched_queue, user_lock, wait_queue, cpu_task,
                            cpu_ctx, cpu_isr, isr_nesting, task_state,
                            task_flags, task_sleep_result, task_cpu,
                            task_timer, tpc, targ, woken_by, sleep_ret,
                            kpanic>>

SchedNext ==
  \/ \E c \in KCpu : SchedLock(c)
  \/ \E c \in KCpu : SchedDispatch(c)
  \/ \E c \in KCpu : SchedIdle(c)
  \/ \E c \in KCpu : SchedSwitchedBack(c)
  \/ \E c \in KCpu : SchedCleanup(c)
  \/ \E c \in KCpu : TaskSchedUnlock(c)
  \/ \E c \in KCpu : task_yield(c)
  \/ \E c \in KCpu : task_exit(c)
  \/ \E c \in KCpu, task \in KTask : task_resume(c, task)
  \/ \E c \in KCpu, queue \in BOOLEAN, timeout \in BOOLEAN :
       SleepCall(c, queue, timeout)
  \/ \E c \in KCpu : SleepSchedLock(c)
  \/ \E c \in KCpu : sched_sleep(c)
  \/ \E c \in KCpu : SleepRelock(c)
  \/ \E c \in KCpu : UserUnlock(c)
  \/ \E c \in KCpu, result \in WakeResults : WakeCall(c, result)
  \/ \E c \in KCpu : WakeupAll(c)
  \/ \E c \in KCpu : sched_isr_enter(c)
  \/ \E c \in KCpu, task \in KTask : task_sleep_callback(c, task)
  \/ \E c \in KCpu : sched_isr_exit(c)
  \/ \E c \in KCpu : IsrExitResume(c)

----------------------------------------------------------------------------
(* Run queues and wake-one on one CPU: sched_enqueue, sched_dequeue,        *)
(* sched_wakeup_one, sched_may_yield and sched_isr_exit of                  *)
(* unnamed/part_003, with three tasks of which two share a priority.  Every *)
(* step is one critical section of the scheduler lock.                      *)

\* A wake-up that takes the head of the list whatever the priorities
sched_wakeup_one_Head(sd, my_task, nest, result) ==
  IF sd.wq = << >>
    THEN [sd |-> sd, yielded |-> FALSE, woken |-> NULL]
    ELSE LET highest == Head(sd.wq)
             woken == [sd EXCEPT !.wq = ListRemove(@, highest),
                                 !.sr[highest] = result,
                                 !.wb[highest] = [by |-> "wake", r |-> result]]
             my == sched_may_yield(sched_enqueue(woken, highest), my_task,
                                   nest, highest)
         IN [sd |-> my.sd, yielded |-> my.yielded, woken |-> highest]

\* sched_wakeup_one(queue, result) up to its context switch: the scheduler
\* data after it, whether the CPU yields, and the task it woke (NULL if the
\* list was empty)
sched_wakeup_one(sd, my_task, nest, result) ==
  LET highest == WakeupScan(task_priority, sd.wq, 1, NULL)
  IN IF highest = NULL
       THEN [sd |-> sd, yielded |-> FALSE, woken |-> NULL]
       ELSE LET woken == [sd EXCEPT !.wq = ListRemove(@, highest),
                                    !.sr[highest] = result,
                                    !.wb[highest] = [by |-> "wake",
                                                     r |-> result]]
                my == sched_may_yield(sched_enqueue(woken, highest), my_task,
                                      nest, highest)
            IN [sd |-> my.sd, yielded |-> my.yielded, woken |-> highest]

\* The state before any task_create: no task exists, the CPU is in its
\* scheduler loop
QueueInit ==
  /\ q_sched = [rq |-> [i \in 0..(TASK_MAX_PRIORITIES - 1) |-> << >>],
                st |-> [t \in QTask |-> "NONE"],
                fl |-> [t \in QTask |-> FALSE],
                sr |-> [t \in QTask |-> 0],
                wq |-> << >>,
                wb |-> [t \in QTask |-> NotWoken]]
  /\ q_task = NULL
  /\ q_nesting = 0
  /\ q_ready_order = << >>
  /\ q_sleep_order = << >>
  /\ q_ret = 0
  /\ q_resumed = {}

QueueQuiet == QueueInit

QueueOtherFrame ==
  UNCHANGED <<spinVars, mboxVars, semVars, schedVars, procVars, irqVars>>

\* Only task_resume returns a value to q_ret
QueueFrame == QueueOtherFrame /\ UNCHANGED <<q_ret, q_resumed>>

\* task_create(.., priority): the task object is set up Suspended, with no
\* flag, and is put on no list
QCreate(t) ==
  /\ q_sched.st[t] = "NONE"
  /\ q_sched' = [q_sched EXCEPT !.st[t] = "SUSPENDED", !.fl[t] = FALSE]
  /\ UNCHANGED <<q_task, q_nesting, q_ready_order, q_sleep_order>>
  /\ QueueFrame

\* A resume that enqueues the task whatever its state
task_resume_result_AnyState(sd, my_task, nest, task) ==
  LET my == sched_may_yield(sched_enqueue(sd, task), my_task, nest, task)
  IN [r |-> 0, sd |-> my.sd, yielded |-> my.yielded]

\* task_resume(task) up to its context switch: the value it returns, the
\* scheduler data after it, and whether the CPU yields
task_resume_result(sd, my_task, nest, task) ==
  IF sd.st[task] # "SUSPENDED"
    THEN [r |-> -EINVAL, sd |-> sd, yielded |-> FALSE]
    ELSE LET my == sched_may_yield(sched_enqueue(sd, task), my_task, nest,
                                   task)
         IN [r |-> 0, sd |-> my.sd, yielded |-> my.yielded]

\* task_resume(task) of a task that has been created, by the running task,
\* by an ISR or by the boot code
QResume(t) ==
  /\ q_sched.st[t] # "NONE"
  /\ LET my == task_resume_result(q_sched, q_task, q_nesting, t)
     IN /\ q_sched' = my.sd
        /\ q_task' = IF my.yielded THEN NULL ELSE q_task
        /\ q_ret' = my.r
        /\ q_ready_order' = q_ready_order \o
                              (IF my.r = 0 THEN <<t>> ELSE << >>) \o
                              (IF my.yielded THEN <<q_task>> ELSE << >>)
  /\ q_resumed' = q_resumed \cup {t}
  /\ UNCHANGED <<q_nesting, q_sleep_order>>
  /\ QueueOtherFrame

\* The scheduler loop of sched_start: next = sched_dequeue(); if there is
\* one, it becomes Running and the CPU switches to it
QDispatch ==
  /\ q_task = NULL /\ q_nesting = 0
  /\ LET d == sched_dequeue(q_sched.rq)
     IN /\ d.task # NULL
        /\ q_sched' = [q_sched EXCEPT !.rq = d.rq, !.st[d.task] = "RUNNING"]
        /\ q_task' = d.task
        /\ q_ready_order' = ListRemove(q_ready_order, d.task)
  /\ UNCHANGED <<q_nesting, q_sleep_order>>
  /\ QueueFrame

\* task_yield() of the running task: sched_enqueue(current); sched_yield()
QYield ==
  /\ q_task # NULL /\ q_nesting = 0
  /\ q_sched' = sched_enqueue(q_sched, q_task)
  /\ q_task' = NULL
  /\ q_ready_order' = Append(q_ready_order, q_task)
  /\ UNCHANGED <<q_nesting, q_sleep_order>>
  /\ QueueFrame

\* sched_sleep(queue, 0, ..) of the running task: state = SLEEPING;
\* list_add_back(queue, &my_task->link); sched_yield()
QSleep ==
  /\ q_task # NULL /\ q_nesting = 0
  /\ q_sched' = [q_sched EXCEPT !.st[q_task] = "SLEEPING",
                                !.wq = Append(@, q_task),
                                !.wb[q_task] = NotWoken]
  /\ q_task' = NULL
  /\ q_sleep_order' = Append(q_sleep_order, q_task)
  /\ UNCHANGED <<q_nesting, q_ready_order>>
  /\ QueueFrame

\* sched_wakeup_one(queue, result) by the running task, by an ISR or by the
\* scheduler context
QWakeupOne(result) ==
  /\ LET w == sched_wakeup_one(q_sched, q_task, q_nesting, result)
     IN /\ q_sched' = w.sd
        /\ q_task' = IF w.yielded THEN NULL ELSE q_task
        /\ q_ready_order' = q_ready_order \o
                              (IF w.woken = NULL THEN << >> ELSE <<w.woken>>) \o
                              (IF w.yielded THEN <<q_task>> ELSE << >>)
        /\ q_sleep_order' = IF w.woken = NULL THEN q_sleep_order
                            ELSE ListRemove(q_sleep_order, w.woken)
  /\ UNCHANGED q_nesting
  /\ QueueFrame

\* sched_isr_enter(): isr_nesting++
QIsrEnter ==
  /\ q_nesting < MaxIsrNesting
  /\ q_nesting' = q_nesting + 1
  /\ UNCHANGED <<q_sched, q_task, q_ready_order, q_sleep_order>>
  /\ QueueFrame

\* sched_isr_exit() of an ISR: --isr_nesting; at the outermost exit a
\* current task whose reschedule flag is set loses the flag, is enqueued
\* and is switched out
QIsrExit ==
  /\ q_nesting > 0
  /\ LET exit == IsrExitNesting(q_nesting)
         out  == IsrExitYields(q_sched, q_task, exit.nesting)
     IN /\ q_nesting' = exit.nesting
        /\ IF out # NULL
             THEN /\ q_sched' = sched_enqueue(
                                  [q_sched EXCEPT !.fl[out] = FALSE], out)
                  /\ q_task' = NULL
                  /\ q_ready_order' = Append(q_ready_order, out)
             ELSE UNCHANGED <<q_sched, q_task, q_ready_order>>
  /\ UNCHANGED q_sleep_order
  /\ QueueFrame

QueueNext ==
  \/ \E t \in QTask : QCreate(t)
  \/ \E t \in QTask : QResume(t)
  \/ QDispatch
  \/ QYield
  \/ QSleep
  \/ \E result \in WakeResults : QWakeupOne(result)
  \/ QIsrEnter
  \/ QIsrExit

----------------------------------------------------------------------------
(* Interrupt dispatch: kernel/interrupt.c.  A step of a CPU is one call of  *)
(* interrupt_dispatch; the interrupt controller behind arch_interrupt_*     *)
(* signals a line to one CPU at a time: a line that is enabled, not masked  *)
(* and not active, which stays active from the read of its id to its EOI.   *)

IrqLine == 1..IrqLines

\* The calls interrupt_dispatch makes after arch_interrupt_id(), up to the
\* call of the handler, in their order
DispatchOrder_EoiFirst == <<"begin", "eoi", "mask", "call">>

DispatchOrder == <<"begin", "mask", "eoi", "call">>

\* The call that follows the call at pc in interrupt_dispatch: after the
\* handler, arch_interrupt_unmask if should_unmask, then k_irq_handler_end
DispatchAfter(pc, should_unmask) ==
  IF pc = "call" THEN (IF should_unmask # 0 THEN "unmask" ELSE "end")
  ELSE IF pc = "unmask" THEN "end"
  ELSE IF pc = "end" THEN "idle"
  ELSE LET i == CHOOSE j \in 1..Len(DispatchOrder) : DispatchOrder[j] = pc
       IN DispatchOrder[i + 1]

\* A call whose stub of a threaded handler asks for the unmask
interrupt_handler_call_StubUnmasks(h, ret) ==
  IF h = "none" THEN 1
  ELSE IF h = "thread" THEN 1
  ELSE ret

\* interrupt_handler_call(irq) for a line whose installed handler is h and
\* whose handler, if it is a direct one, returns ret: the value returned
interrupt_handler_call(h, ret) ==
  IF h = "none" THEN 1
  ELSE IF h = "thread" THEN 0
  ELSE ret

\* A line nobody has attached a handler to; stray = TRUE if the controller
\* signals it all the same
LineInit(stray) ==
  [enabled |-> stray, masked |-> FALSE, active |-> FALSE, handler |-> "none",
   entered |-> FALSE, sem |-> 0, thread |-> "none", pending |-> 0]

CpuIdle == [pc |-> "idle", irq |-> NULL, should_unmask |-> 0, log |-> << >>,
            called |-> "none"]

IrqInit ==
  /\ irq_line \in [IrqLine -> {LineInit(s) : s \in BOOLEAN}]
  /\ irq_cpu = [c \in KCpu |-> CpuIdle]

IrqQuiet ==
  /\ irq_line = [l \in IrqLine |-> LineInit(FALSE)]
  /\ irq_cpu = [c \in KCpu |-> CpuIdle]

IrqFrame ==
  UNCHANGED <<spinVars, mboxVars, semVars, schedVars, procVars, queueVars>>

\* interrupt_attach(irq, handler, arg) of a direct handler, for a line that
\* is not enabled yet: the handler is installed, the line enabled and
\* unmasked
interrupt_attach(l) ==
  /\ irq_line[l].handler = "none" /\ ~irq_line[l].enabled
  /\ irq_line[l].thread = "none"
  /\ irq_line' = [irq_line EXCEPT ![l].handler = "direct",
                                  ![l].enabled = TRUE,
                                  ![l].masked = FALSE]
  /\ UNCHANGED irq_cpu
  /\ IrqFrame

\* interrupt_attach_thread up to its interrupt_attach: the thread is
\* created (Suspended) and its semaphore initialised with 0
AttachThreadCreate(l) ==
  /\ irq_line[l].handler = "none" /\ ~irq_line[l].enabled
  /\ irq_line[l].thread = "none"
  /\ irq_line' = [irq_line EXCEPT ![l].thread = "created", ![l].sem = 0]
  /\ UNCHANGED irq_cpu
  /\ IrqFrame

\* interrupt_attach_thread: interrupt_attach(irq, interrupt_thread_notify,
\* isr)
AttachThreadAttach(l) ==
  /\ irq_line[l].handler = "none" /\ irq_line[l].thread = "created"
  /\ irq_line' = [irq_line EXCEPT ![l].handler = "thread",
                                  ![l].enabled = TRUE,
                                  ![l].masked = FALSE]
  /\ UNCHANGED irq_cpu
  /\ IrqFrame

\* interrupt_attach_thread: k_thread_resume(thread); the thread enters its
\* loop
AttachThreadResume(l) ==
  /\ irq_line[l].handler = "thread" /\ irq_line[l].thread = "created"
  /\ irq_line' = [irq_line EXCEPT ![l].thread = "get"]
  /\ UNCHANGED irq_cpu
  /\ IrqFrame

\* interrupt_thread_entry: k_semaphore_get returns
ThreadGet(l) ==
  /\ irq_line[l].thread = "get" /\ irq_line[l].sem > 0
  /\ irq_line' = [irq_line EXCEPT ![l].sem = @ - 1, ![l].thread = "handler"]
  /\ UNCHANGED irq_cpu
  /\ IrqFrame

\* interrupt_thread_entry: should_unmask = isr->handler(..)
ThreadHandler(l, ret) ==
  /\ irq_line[l].thread = "handler"
  /\ irq_line' = [irq_line EXCEPT
                    ![l].thread = IF ret # 0 THEN "unmask" ELSE "get",
                    ![l].pending = @ - 1]
  /\ UNCHANGED irq_cpu
  /\ IrqFrame

\* interrupt_thread_entry: arch_interrupt_unmask(isr->irq)
ThreadUnmask(l) ==
  /\ irq_line[l].thread = "unmask"
  /\ irq_line' = [irq_line EXCEPT ![l].thread = "get", ![l].masked = FALSE,
                                  ![l].entered = FALSE]
  /\ UNCHANGED irq_cpu
  /\ IrqFrame

\* The controller signals line l to CPU c, which enters interrupt_dispatch:
\* irq = arch_interrupt_id()
DispatchId(c, l) ==
  /\ irq_cpu[c].pc = "idle"
  /\ irq_line[l].enabled /\ ~irq_line[l].masked /\ ~irq_line[l].active
  /\ irq_line' = [irq_line EXCEPT
                    ![l].active = TRUE,
                    ![l].pending = IF irq_line[l].handler = "thread"
                                     THEN @ + 1 ELSE @]
  /\ irq_cpu' = [irq_cpu EXCEPT ![c] = [CpuIdle EXCEPT !.pc = DispatchOrder[1],
                                                        !.irq = l]]
  /\ IrqFrame

\* k_irq_handler_begin()
DispatchBegin(c) ==
  /\ irq_cpu[c].pc = "begin"
  /\ irq_cpu' = [irq_cpu EXCEPT ![c].pc = DispatchAfter("begin", 0),
                                ![c].log = Append(@, "enter")]
  /\ UNCHANGED irq_line
  /\ IrqFrame

\* arch_interrupt_mask(irq)
DispatchMask(c) ==
  /\ irq_cpu[c].pc = "mask"
  /\ irq_line' = [irq_line EXCEPT ![irq_cpu[c].irq].masked = TRUE]
  /\ irq_cpu' = [irq_cpu EXCEPT ![c].pc = DispatchAfter("mask", 0),
                                ![c].log = Append(@, "mask")]
  /\ IrqFrame

\* arch_interrupt_eoi(irq)
DispatchEoi(c) ==
  /\ irq_cpu[c].pc = "eoi"
  /\ irq_line' = [irq_line EXCEPT ![irq_cpu[c].irq].active = FALSE]
  /\ irq_cpu' = [irq_cpu EXCEPT ![c].pc = DispatchAfter("eoi", 0),
                                ![c].log = Append(@, "eoi")]
  /\ IrqFrame

\* should_unmask = interrupt_handler_call(irq): the installed handler runs
\* (interrupt_thread_notify puts the semaphore), or nobody does
DispatchCall(c, ret) ==
  LET l == irq_cpu[c].irq
      h == irq_line[l].handler
      r == interrupt_handler_call(h, ret)
  IN /\ irq_cpu[c].pc = "call"
     /\ h # "direct" => ret = 0
     /\ irq_line' = [irq_line EXCEPT
                       ![l].sem = IF h = "thread" THEN @ + 1 ELSE @,
                       ![l].entered = IF h = "none" THEN @ ELSE TRUE]
     /\ irq_cpu' = [irq_cpu EXCEPT
                      ![c].pc = DispatchAfter("call", r),
                      ![c].should_unmask = r,
                      ![c].called = h,
                      ![c].log = IF h = "none" THEN @ ELSE Append(@, "handler")]
     /\ IrqFrame

\* if (should_unmask) arch_interrupt_unmask(irq)
DispatchUnmask(c) ==
  /\ irq_cpu[c].pc = "unmask"
  /\ irq_line' = [irq_line EXCEPT ![irq_cpu[c].irq].masked = FALSE,
                                  ![irq_cpu[c].irq].entered = FALSE]
  /\ irq_cpu' = [irq_cpu EXCEPT ![c].pc = DispatchAfter("unmask", 0),
                                ![c].log = Append(@, "unmask")]
  /\ IrqFrame

\* k_irq_handler_end(); the CPU returns from the interrupt
DispatchEnd(c) ==
  /\ irq_cpu[c].pc = "end"
  /\ irq_cpu' = [irq_cpu EXCEPT ![c].pc = DispatchAfter("end", 0),
                                ![c].log = Append(@, "exit")]
  /\ UNCHANGED irq_line
  /\ IrqFrame

IrqNext ==
  \/ \E l \in IrqLine : interrupt_attach(l)
  \/ \E l \in IrqLine : AttachThreadCreate(l)
  \/ \E l \in IrqLine : AttachThreadAttach(l)
  \/ \E l \in IrqLine : AttachThreadResume(l)
  \/ \E l \in IrqLine : ThreadGet(l)
  \/ \E l \in IrqLine, ret \in {0, 1} : ThreadHandler(l, ret)
  \/ \E l \in IrqLine : ThreadUnmask(l)
  \/ \E c \in KCpu, l \in IrqLine : DispatchId(c, l)
  \/ \E c \in KCpu : DispatchBegin(c)
  \/ \E c \in KCpu : DispatchMask(c)
  \/ \E c \in KCpu : DispatchEoi(c)
  \/ \E c \in KCpu, ret \in {0, 1} : DispatchCall(c, ret)
  \/ \E c \in KCpu : DispatchUnmask(c)
  \/ \E c \in KCpu : DispatchEnd(c)

----------------------------------------------------------------------------
(* Processes: process.c.  The scheduler is abstract here: a process that is *)
(* in the kernel runs its call step by step, the steps of different        *)
(* processes interleave, and a sleeping process runs again once it has     *)
(* been woken.                                                              *)

Pid == 1..MaxPid
Fd == 0..(OPEN_MAX - 1)
Status == 0..MaxStatus

\* init_process: the process that process_init creates
init_process == 1

\* A descriptor that process_alloc has not handed out
NoProcess ==
  [state |-> "none", parent |-> NULL, children |-> << >>, zombie |-> FALSE,
   exit_code |-> 0, vm |-> "none", files |-> {}, closed |-> {},
   cwd |-> FALSE, origin |-> "none", creator |-> NULL,
   tf |-> [r0 |-> 0, regs |-> 0]]

NoLocals ==
  [call |-> "none", child |-> NULL, status |-> 0, pid |-> 0,
   nohang |-> FALSE, victim |-> NULL, found |-> 0, ret |-> 0, stat |-> 0,
   was_child |-> FALSE, pstore |-> NULL, failed |-> "none"]

\* process_alloc(): the descriptor it returns for the PID it assigns
process_alloc(origin) ==
  [NoProcess EXCEPT !.state = "alloc", !.origin = origin]

\* The values a read of p->thread->pid can give: the PID, or anything once
\* the thread object has been freed
ReadPid(p) == IF thread_state[p] = "freed" THEN 0..MaxPid ELSE {p}

\* The reads of p->thread->pid of one scan of process_wait over the list
PidReads(list) ==
  {[p \in Pid |-> IF p \in ListSet(list) THEN g[p] ELSE p] :
     g \in {h \in [ListSet(list) -> 0..MaxPid] :
              \A p \in ListSet(list) : h[p] \in ReadPid(p)}}

\* A loop that reaps the first child that matches, zombie or not
WaitLoop_AnyChild(list, i, pid, rd, found) ==
  LET match == {j \in 1..Len(list) : pid <= 0 \/ rd[list[j]] = pid}
  IN IF match = {} THEN [found |-> 0, victim |-> NULL]
     ELSE LET j == CHOOSE x \in match : \A y \in match : x <= y
          IN [found |-> rd[list[j]], victim |-> list[j]]

\* The loop of process_wait over the child list from position i on: the
\* PID found and the zombie child to reap, if any
RECURSIVE WaitLoop(_, _, _, _, _)
WaitLoop(list, i, pid, rd, found) ==
  IF i > Len(list) THEN [found |-> found, victim |-> NULL]
  ELSE LET p == list[i]
       IN IF pid > 0 /\ rd[p] # pid
            THEN WaitLoop(list, i + 1, pid, rd, found)
            ELSE IF process[p].zombie
                   THEN [found |-> rd[p], victim |-> p]
                   ELSE WaitLoop(list, i + 1, pid, rd, rd[p])

\* A close loop that forgets descriptor 0
process_destroy_close_SkipFirst(files) == files \ {0}

\* process_destroy: the descriptors file_close is called for
process_destroy_close(files) == files

\* A wake-up that wakes nobody
WakeupAllOf_Nobody(pcs, W) == pcs

\* wchan_wakeup_all(&q->wait_queue) for every q of W: the positions of the
\* processes afterwards
WakeupAllOf(pcs, W) ==
  [q \in Pid |-> IF q \in W /\ pcs[q] = "w_sleep" THEN "w_lock" ELSE pcs[q]]

\* The record process_free(p) adds to the history
FreeRecord(p, by, via) ==
  [pid |-> p, by |-> by, parent |-> process[p].parent,
   zombie |-> process[p].zombie, via |-> via,
   started |-> (ppc[p] # "embryo"), creator |-> process[p].creator]

ProcFrame ==
  UNCHANGED <<spinVars, mboxVars, semVars, schedVars, queueVars, irqVars>>

\* The user registers of the init process when it enters the kernel: r0 and
\* the other registers hold values that are not 0
InitTrapFrame == [r0 |-> 1, regs |-> 1]

\* process_init(): the init process has been created and runs in user mode
\* with descriptor 0 open and its cwd set by process_run
ProcInit ==
  /\ process = [p \in Pid |->
                  IF p = init_process
                    THEN [process_alloc("create") EXCEPT
                            !.vm = "live", !.files = {0}, !.cwd = TRUE,
                            !.tf = InitTrapFrame]
                    ELSE NoProcess]
  /\ thread_state = [p \in Pid |-> IF p = init_process THEN "live" ELSE "none"]
  /\ pid_hash = {init_process}
  /\ next_pid = 1
  /\ process_lock = NULL
  /\ ppc = [p \in Pid |-> IF p = init_process THEN "user" ELSE "none"]
  /\ plocal = [p \in Pid |-> NoLocals]
  /\ free_log = << >>

\* The state of the process variables in the other specifications
ProcQuiet == ProcInit

\* The ways a call of process_create can go: the step that fails, if any
CreateOutcomes == {"ok", "alloc_fail", "vm_fail", "load_fail", "stack_fail"}

\* process_setup_vm(proc): -ENOMEM if vm_space_create fails
process_setup_vm(outcome) == IF outcome = "vm_fail" THEN -ENOMEM ELSE 0

\* process_load_binary(proc, binary): the negative error of a bad image or
\* of a failed segment; r = (int) vm_space_alloc(..) < 0 for the user stack
\* is the value of the comparison, and "return r" is taken if it is not 0
process_load_binary(outcome) ==
  IF outcome = "load_fail" THEN -EINVAL
  ELSE LET r == IF outcome = "stack_fail" THEN 1 ELSE 0
       IN IF r # 0 THEN r ELSE 0

\* process_create: what it returns and what it has done by then.  r =
\* process_setup_vm(proc) < 0 assigns the value of the comparison; the
\* result of process_load_binary is assigned before it is compared.
process_create_result(outcome) ==
  IF outcome = "alloc_fail"
    THEN [r |-> -ENOMEM, vm |-> "none", freed |-> FALSE, resumed |-> FALSE]
  ELSE LET r1 == IF process_setup_vm(outcome) < 0 THEN 1 ELSE 0
       IN IF r1 # 0
            THEN [r |-> r1, vm |-> "none", freed |-> TRUE, resumed |-> FALSE]
          ELSE LET r2 == process_load_binary(outcome)
               IN IF r2 < 0
                    THEN [r |-> r2, vm |-> "destroyed", freed |-> TRUE,
                          resumed |-> FALSE]
                    ELSE [r |-> 0,
                          vm |-> IF outcome = "stack_fail" THEN "nostack"
                                 ELSE "live",
                          freed |-> FALSE, resumed |-> TRUE]

\* process_create(binary, pstore), called by the kernel with process_alloc
\* succeeding: process_setup_vm, process_load_binary, task_resume, *pstore;
\* a failure it notices frees the descriptor
process_create(outcome, pstore) ==
  LET p == next_pid + 1
      res == process_create_result(outcome)
  IN /\ next_pid < MaxAlloc
     /\ outcome # "alloc_fail"
     /\ ProcFrame
     /\ next_pid' = p
     /\ pid_hash' = pid_hash \cup {p}
     /\ thread_state' = [thread_state EXCEPT ![p] = "live"]
     /\ process' = [process EXCEPT ![p] =
          [process_alloc("create") EXCEPT
             !.state = IF res.freed THEN "freed" ELSE "alloc",
             !.vm = res.vm]]
     /\ ppc' = [ppc EXCEPT ![p] = IF res.resumed THEN "user" ELSE "embryo"]
     /\ free_log' = IF ~res.freed THEN free_log
                    ELSE Append(free_log,
                                [pid |-> p, by |-> NULL, parent |-> NULL,
                                 zombie |-> FALSE, via |-> "create",
                                 started |-> FALSE, creator |-> NULL])
     /\ plocal' = [plocal EXCEPT ![p] =
          [NoLocals EXCEPT
             !.call = "create", !.ret = res.r,
             !.failed = IF outcome = "ok" THEN "none" ELSE outcome,
             !.pstore = IF res.resumed /\ pstore THEN p ELSE NULL]]
     /\ UNCHANGED process_lock

\* process_copy: process_alloc()
CopyAlloc(k, ok) ==
  LET child == next_pid + 1
  IN /\ ppc[k] = "user"
     /\ next_pid < MaxAlloc
     /\ ProcFrame
     /\ IF ok
          THEN /\ next_pid' = child
               /\ pid_hash' = pid_hash \cup {child}
               /\ thread_state' = [thread_state EXCEPT ![child] = "live"]
               /\ process' = [process EXCEPT ![child] =
                    [process_alloc("copy") EXCEPT !.creator = k]]
               /\ ppc' = [ppc EXCEPT ![k] = "c_clone", ![child] = "embryo"]
               /\ plocal' = [plocal EXCEPT ![k] =
                    [NoLocals EXCEPT !.call = "copy", !.child = child]]
          ELSE /\ plocal' = [plocal EXCEPT ![k] =
                    [NoLocals EXCEPT !.call = "copy", !.ret = -ENOMEM]]
               /\ UNCHANGED <<next_pid, pid_hash, thread_state, process, ppc>>
     /\ UNCHANGED <<process_lock, free_log>>

\* *child->thread->tf = *current->thread->tf; child->thread->tf->r0 = 0
arch_process_copy(tf) == [tf EXCEPT !.r0 = 0]

\* process_copy: vm_space_clone; on failure process_free(child) and return
\* -ENOMEM, otherwise the parent link, the trap frame, the open files and
\* the cwd are copied
CopyClone(k, ok) ==
  LET child == plocal[k].child
  IN /\ ppc[k] = "c_clone"
     /\ ProcFrame
     /\ IF ok
          THEN /\ process' = [process EXCEPT
                    ![child].vm = "live", ![child].parent = k,
                    ![child].tf = arch_process_copy(process[k].tf),
                    ![child].files = process[k].files,
                    ![child].cwd = process[k].cwd]
               /\ ppc' = [ppc EXCEPT ![k] = "c_link"]
               /\ UNCHANGED <<plocal, free_log>>
          ELSE /\ process' = [process EXCEPT ![child].state = "freed"]
               /\ free_log' = Append(free_log, FreeRecord(child, k, "copy"))
               /\ ppc' = [ppc EXCEPT ![k] = "user"]
               /\ plocal' = [plocal EXCEPT ![k].ret = -ENOMEM]
     /\ UNCHANGED <<thread_state, pid_hash, next_pid, process_lock>>

\* process_copy: spin_lock(&process_lock); list_add_back(&current->children);
\* spin_unlock
CopyLink(k) ==
  /\ ppc[k] = "c_link"
  /\ process_lock = NULL
  /\ ProcFrame
  /\ process' = [process EXCEPT ![k].children = Append(@, plocal[k].child)]
  /\ ppc' = [ppc EXCEPT ![k] = "c_resume"]
  /\ UNCHANGED <<thread_state, pid_hash, next_pid, process_lock, plocal,
                 free_log>>

\* process_copy: task_resume(&child->thread->task)
CopyResume(k) ==
  /\ ppc[k] = "c_resume"
  /\ ProcFrame
  /\ ppc' = [ppc EXCEPT ![k] = "c_ret", ![plocal[k].child] = "user"]
  /\ UNCHANGED <<process, thread_state, pid_hash, next_pid, process_lock,
                 plocal, free_log>>

\* process_copy: return child->thread->pid
CopyReturn(k) ==
  /\ ppc[k] = "c_ret"
  /\ ProcFrame
  /\ \E v \in ReadPid(plocal[k].child) :
       plocal' = [plocal EXCEPT ![k].ret = v]
  /\ ppc' = [ppc EXCEPT ![k] = "user"]
  /\ UNCHANGED <<process, thread_state, pid_hash, next_pid, process_lock,
                 free_log>>

\* process_destroy(status): HASH_REMOVE(&current->thread->pid_link)
DestroyHash(k, status) ==
  /\ ppc[k] = "user"
  /\ ProcFrame
  /\ pid_hash' = pid_hash \ {k}
  /\ plocal' = [plocal EXCEPT ![k] =
       [NoLocals EXCEPT !.call = "destroy", !.status = status]]
  /\ ppc' = [ppc EXCEPT ![k] = "d_vm"]
  /\ UNCHANGED <<process, thread_state, next_pid, process_lock, free_log>>

\* process_destroy: vm_space_destroy(current->vm)
DestroyVm(k) ==
  /\ ppc[k] = "d_vm"
  /\ ProcFrame
  /\ process' = [process EXCEPT ![k].vm = "destroyed"]
  /\ ppc' = [ppc EXCEPT ![k] = "d_files"]
  /\ UNCHANGED <<thread_state, pid_hash, next_pid, process_lock, plocal,
                 free_log>>

\* process_destroy: file_close for every open descriptor
DestroyFiles(k) ==
  /\ ppc[k] = "d_files"
  /\ ProcFrame
  /\ process' = [process EXCEPT
                   ![k].closed = process_destroy_close(process[k].files)]
  /\ ppc' = [ppc EXCEPT ![k] = "d_cwd"]
  /\ UNCHANGED <<thread_state, pid_hash, next_pid, process_lock, plocal,
                 free_log>>

\* process_destroy: fs_inode_put(current->cwd)
DestroyCwd(k) ==
  /\ ppc[k] = "d_cwd"
  /\ ProcFrame
  /\ process' = [process EXCEPT ![k].cwd = FALSE]
  /\ ppc' = [ppc EXCEPT ![k] = "d_lock"]
  /\ UNCHANGED <<thread_state, pid_hash, next_pid, process_lock, plocal,
                 free_log>>

\* Children that are linked to the front of the list
list_add_back_Front(list, kids) == kids \o list

\* list_add_back(&init_process->children, l) for the children in the order
\* in which the loop of process_destroy takes them from the caller's list
list_add_back(list, kids) == list \o kids

\* process_destroy, one iteration of the reparenting loop of process k, whose
\* child list is not empty: l = current->children.next; list_remove(l);
\* child->parent = init_process; list_add_back(&init_process->children, l)
ReparentIteration(proc, k) ==
  LET l == Head(proc[k].children)
      removed == [proc EXCEPT ![k].children = Tail(@)]
      moved == [removed EXCEPT ![l].parent = init_process]
  IN [moved EXCEPT ![init_process].children = Append(@, l)]

\* A reparenting loop that links the children into init's list without
\* unlinking them from the caller's
process_destroy_reparent_NoRemove(k) ==
  [q \in Pid |->
     IF q = init_process
       THEN [process[q] EXCEPT !.children = list_add_back(@, process[k].children)]
     ELSE IF q \in ListSet(process[k].children)
       THEN [process[q] EXCEPT !.parent = init_process]
     ELSE process[q]]

\* process_destroy, the reparenting loop of a process other than init with
\* children (or of any process without): every child is unlinked from the
\* caller's list, gets parent = init_process and is linked to the back of
\* init's list
process_destroy_reparent(k) ==
  [q \in Pid |->
     IF q = k THEN [process[k] EXCEPT !.children = << >>]
     ELSE IF q = init_process
       THEN [process[q] EXCEPT !.children = list_add_back(@, process[k].children)]
     ELSE IF q \in ListSet(process[k].children)
       THEN [process[q] EXCEPT !.parent = init_process]
     ELSE process[q]]

\* process_destroy under process_lock: the children move to the init
\* process, which is woken if one of them is a zombie; the caller becomes
\* a zombie with its exit code; its parent is woken.  The loop does not end
\* when the caller is the init process and has children.
DestroyLocked(k) ==
  LET kids == process[k].children
      has_zombies == \E c \in ListSet(kids) : process[c].zombie
      woken == (IF has_zombies THEN {init_process} ELSE {})
                 \cup (IF process[k].parent # NULL THEN {process[k].parent}
                       ELSE {})
  IN /\ ppc[k] = "d_lock"
     /\ process_lock = NULL
     /\ ProcFrame
     /\ IF k = init_process /\ kids # << >>
          THEN /\ process_lock' = k
               /\ ppc' = [ppc EXCEPT ![k] = "d_hang"]
               /\ UNCHANGED process
          ELSE /\ process' =
                    [process_destroy_reparent(k) EXCEPT
                       ![k].zombie = TRUE,
                       ![k].exit_code = plocal[k].status]
               /\ ppc' = WakeupAllOf([ppc EXCEPT ![k] = "d_task"], woken)
               /\ UNCHANGED process_lock
     /\ UNCHANGED <<thread_state, pid_hash, next_pid, plocal, free_log>>

\* process_destroy: task_destroy(NULL); the thread is Destroyed and will not
\* run again
DestroyTask(k) ==
  /\ ppc[k] = "d_task"
  /\ ProcFrame
  /\ thread_state' = [thread_state EXCEPT ![k] = "destroyed"]
  /\ ppc' = [ppc EXCEPT ![k] = "exited"]
  /\ UNCHANGED <<process, pid_hash, next_pid, process_lock, plocal, free_log>>

\* process_thread_destroy(task), the destroy hook the scheduler calls for a
\* Destroyed task: the kernel stack and the thread object are freed
process_thread_destroy(k) ==
  /\ thread_state[k] = "destroyed"
  /\ ProcFrame
  /\ thread_state' = [thread_state EXCEPT ![k] = "freed"]
  /\ UNCHANGED <<process, pid_hash, next_pid, process_lock, ppc, plocal,
                 free_log>>

\* process_wait(pid, stat_loc, options) is called with pid = -1 or a PID,
\* with or without WNOHANG
WaitCall(k, pid, nohang) ==
  /\ ppc[k] = "user"
  /\ ProcFrame
  /\ plocal' = [plocal EXCEPT ![k] =
       [NoLocals EXCEPT !.call = "waiting", !.pid = pid, !.nohang = nohang]]
  /\ ppc' = [ppc EXCEPT ![k] = "w_lock"]
  /\ UNCHANGED <<process, thread_state, pid_hash, next_pid, process_lock,
                 free_log>>

\* process_wait under process_lock, one pass of its for (;;) loop: a zombie
\* child that matches is unlinked (and freed after the unlock); without one
\* the call returns -ECHILD or 0, or the caller sleeps on its wait queue
WaitScan(k) ==
  /\ ppc[k] = "w_lock"
  /\ process_lock = NULL
  /\ ProcFrame
  /\ \E rd \in PidReads(process[k].children) :
       LET w == WaitLoop(process[k].children, 1, plocal[k].pid, rd, 0)
           was_child == \E c \in ListSet(process[k].children) :
                          c = plocal[k].pid
       IN IF w.victim # NULL
            THEN /\ process' = [process EXCEPT
                      ![k].children = ListRemove(@, w.victim)]
                 /\ plocal' = [plocal EXCEPT ![k].victim = w.victim,
                                             ![k].found = w.found,
                                             ![k].was_child = was_child]
                 /\ ppc' = [ppc EXCEPT ![k] = "w_free"]
          ELSE IF w.found = 0
            THEN /\ plocal' = [plocal EXCEPT ![k].ret = -ECHILD,
                                             ![k].call = "waited",
                                             ![k].was_child = was_child]
                 /\ ppc' = [ppc EXCEPT ![k] = "user"]
                 /\ UNCHANGED process
          ELSE IF plocal[k].nohang
            THEN /\ plocal' = [plocal EXCEPT ![k].ret = 0,
                                             ![k].call = "waited",
                                             ![k].was_child = was_child]
                 /\ ppc' = [ppc EXCEPT ![k] = "user"]
                 /\ UNCHANGED process
          ELSE /\ ppc' = [ppc EXCEPT ![k] = "w_sleep"]
               /\ UNCHANGED <<process, plocal>>
  /\ UNCHANGED <<thread_state, pid_hash, next_pid, process_lock, free_log>>

\* process_wait after the unlock: *stat_loc = p->exit_code; process_free(p);
\* return found
WaitFree(k) ==
  LET p == plocal[k].victim
  IN /\ ppc[k] = "w_free"
     /\ ProcFrame
     /\ process' = [process EXCEPT ![p].state = "freed"]
     /\ free_log' = Append(free_log, FreeRecord(p, k, "wait"))
     /\ plocal' = [plocal EXCEPT ![k].stat = process[p].exit_code,
                                 ![k].ret = plocal[k].found,
                                 ![k].call = "waited"]
     /\ ppc' = [ppc EXCEPT ![k] = "user"]
     /\ UNCHANGED <<thread_state, pid_hash, next_pid, process_lock>>

ProcNext ==
  \/ \E outcome \in {"ok", "vm_fail", "load_fail"} :
       process_create(outcome, TRUE)
  \/ \E k \in Pid, ok \in BOOLEAN : CopyAlloc(k, ok)
  \/ \E k \in Pid, ok \in BOOLEAN : CopyClone(k, ok)
  \/ \E k \in Pid : CopyLink(k)
  \/ \E k \in Pid : CopyResume(k)
  \/ \E k \in Pid : CopyReturn(k)
  \/ \E k \in Pid, status \in Status : DestroyHash(k, status)
  \/ \E k \in Pid : DestroyVm(k)
  \/ \E k \in Pid : DestroyFiles(k)
  \/ \E k \in Pid : DestroyCwd(k)
  \/ \E k \in Pid : DestroyLocked(k)
  \/ \E k \in Pid : DestroyTask(k)
  \/ \E k \in Pid : process_thread_destroy(k)
  \/ \E k \in Pid, pid \in {-1} \cup Pid, nohang \in BOOLEAN :
       WaitCall(k, pid, nohang)
  \/ \E k \in Pid : WaitScan(k)
  \/ \E k \in Pid : WaitFree(k)

\* The orphan scenario: process 2 (made by process_copy of init, or by
\* process_create and then without parent) has made the children 3 and 4, in
\* this order; one of them has called process_destroy(s) and is a zombie
\* whose task has been cleaned up or not, the other one runs
OrphanP == 2
OrphanKids == <<3, 4>>

OrphanInit ==
  \E par \in {init_process, NULL}, c2 \in ListSet(OrphanKids), s \in Status,
     th \in {"destroyed", "freed"} :
    LET files == IF par = NULL THEN {} ELSE {0}
        cwd   == par # NULL
        regs  == IF par = NULL THEN 0 ELSE InitTrapFrame.regs
        kid   == [process_alloc("copy") EXCEPT
                    !.parent = OrphanP, !.creator = OrphanP, !.vm = "live",
                    !.files = files, !.cwd = cwd, !.tf.regs = regs]
        live  == ({init_process, OrphanP} \cup ListSet(OrphanKids)) \ {c2}
    IN /\ process =
            [p \in Pid |->
               IF p = init_process
                 THEN [process_alloc("create") EXCEPT
                         !.vm = "live", !.files = {0}, !.cwd = TRUE,
                         !.tf = InitTrapFrame,
                         !.children = IF par = NULL THEN << >>
                                      ELSE <<OrphanP>>]
               ELSE IF p = OrphanP
                 THEN [process_alloc(IF par = NULL THEN "create" ELSE "copy")
                         EXCEPT !.vm = "live", !.files = files, !.cwd = cwd,
                                !.tf.regs = regs,
                                !.parent = par, !.creator = par,
                                !.children = OrphanKids]
               ELSE IF p = c2
                 THEN [kid EXCEPT !.zombie = TRUE, !.exit_code = s,
                                  !.vm = "destroyed", !.closed = files,
                                  !.cwd = FALSE]
               ELSE IF p \in ListSet(OrphanKids) THEN kid
               ELSE NoProcess]
       /\ thread_state = [p \in Pid |-> IF p = c2 THEN th
                                        ELSE IF p \in live THEN "live"
                                        ELSE "none"]
       /\ pid_hash = live
       /\ next_pid = OrphanKids[Len(OrphanKids)]
       /\ process_lock = NULL
       /\ ppc = [p \in Pid |-> IF p = c2 THEN "exited"
                               ELSE IF p \in live THEN "user"
                               ELSE "none"]
       /\ plocal = [p \in Pid |->
                      IF p = c2
                        THEN [NoLocals EXCEPT !.call = "destroy", !.status = s]
                        ELSE NoLocals]
       /\ free_log = << >>

\* The calls of the orphan scenario: process 2 and its children may exit at
\* any time, and init calls process_wait(-1, ..) with or without WNOHANG
OrphanNext ==
  \/ \E k \in Pid \ {init_process}, status \in Status : DestroyHash(k, status)
  \/ \E k \in Pid : DestroyVm(k)
  \/ \E k \in Pid : DestroyFiles(k)
  \/ \E k \in Pid : DestroyCwd(k)
  \/ \E k \in Pid : DestroyLocked(k)
  \/ \E k \in Pid : DestroyTask(k)
  \/ \E k \in Pid : process_thread_destroy(k)
  \/ \E nohang \in BOOLEAN : WaitCall(init_process, -1, nohang)
  \/ \E k \in Pid : WaitScan(k)
  \/ \E k \in Pid : WaitFree(k)

\* The kernel creates processes from images, with every outcome of every
\* step, and the processes it has made exit
CreateNext ==
  \/ \E outcome \in CreateOutcomes \ {"alloc_fail"}, pstore \in BOOLEAN :
       process_create(outcome, pstore)
  \/ \E k \in Pid, status \in Status : DestroyHash(k, status)
  \/ \E k \in Pid : DestroyVm(k)
  \/ \E k \in Pid : DestroyFiles(k)
  \/ \E k \in Pid : DestroyCwd(k)
  \/ \E k \in Pid : DestroyLocked(k)
  \/ \E k \in Pid : DestroyTask(k)
  \/ \E k \in Pid : process_thread_destroy(k)

----------------------------------------------------------------------------
(* The specifications *)

InitMbox == MboxInit /\ SpinInit /\ SemQuiet /\ SchedQuiet /\ ProcQuiet /\ QueueQuiet /\ IrqQuiet

SpecMbox == InitMbox /\ [][MboxTryNext]_vars

InitMboxWait ==
  /\ MboxInitWith({1}, 1..MaxWaitBuf, BOOLEAN)
  /\ SpinInit /\ SemQuiet /\ SchedQuiet /\ ProcQuiet /\ QueueQuiet /\ IrqQuiet

SpecMboxWait == InitMboxWait /\ [][MboxNext]_vars

\* Blocked receivers and a sender that does not block: the receivers call
\* k_mailbox_timed_receive without a time-out before the first message is
\* sent, the sender calls k_mailbox_try_send, and nobody else takes a message
MboxFairNext ==
  \/ \E t \in MActive : Len(mb_sent) = 0 /\ k_mailbox_timed_receive(t, FALSE)
  \/ \E m \in Messages(mailbox.msg_size) : k_mailbox_try_send(MboxSender, m)
  \/ \E t \in MActive : MbSleepReturn(t)

InitMboxFair ==
  /\ MboxInitWith({1}, {MaxWaitBuf}, {TRUE})
  /\ SpinInit /\ SemQuiet /\ SchedQuiet /\ ProcQuiet /\ QueueQuiet /\ IrqQuiet

\* Fair scheduling: a task that has been made Ready runs again
SpecMboxFair ==
  /\ InitMboxFair /\ [][MboxFairNext]_vars
  /\ \A t \in MActive : WF_vars(MbSleepReturn(t))

InitQueue ==
  /\ QueueInit
  /\ SpinInit /\ MboxQuiet /\ SemQuiet /\ SchedQuiet /\ ProcQuiet /\ IrqQuiet

SpecQueue == InitQueue /\ [][QueueNext]_vars

InitIrq ==
  /\ IrqInit
  /\ SpinInit /\ MboxQuiet /\ SemQuiet /\ SchedQuiet /\ ProcQuiet /\ QueueQuiet

SpecIrq == InitIrq /\ [][IrqNext]_vars

\* C9: on every empty mailbox with capacity >= 1 and for every message m,
\* try_send(m) followed by try_receive both return 0, the bytes received
\* equal m and the mailbox is empty again; and whenever the mailbox is empty
\* every message sent has been received, byte for byte.
C9_SendReceiveRoundTrip ==
  (mailbox.size = 0 /\ mailbox.capacity >= 1) =>
    /\ mb_rcvd = mb_sent
    /\ \A m \in [1..mailbox.msg_size -> Byte] :
         LET snd == TrySendLocked(mailbox, mb_mem, m)
             rcv == TryReceiveLocked(snd.mb, snd.mem, NoMessage)
         IN /\ snd.r = 0 /\ snd.mb.size = 1
            /\ rcv.r = 0 /\ rcv.msg = m /\ rcv.mb.size = 0

\* C9 witness: a mailbox of capacity >= 2 that is empty again after a
\* try_send and a try_receive that both returned 0 and moved the cursors
\* off the start of a buffer that holds a stale byte 1.
C9_Witness ==
  /\ mailbox.size = 0 /\ mailbox.capacity >= 2
  /\ Len(mb_sent) >= 1 /\ mb_rcvd = mb_sent
  /\ mailbox.read_ptr # 0 /\ mailbox.read_ptr = mailbox.write_ptr
  /\ mb_mem[0] = 1
  /\ \A t \in MTask : mt_ret[t] = 0

\* The sequence p is a prefix of the sequence q
IsPrefix(p, q) == Len(p) <= Len(q) /\ \A i \in 1..Len(p) : p[i] = q[i]

\* C10: the mailbox is a FIFO: in every reachable state the sequence of the
\* messages received is a prefix of the sequence of the messages sent, and
\* the messages sent and not yet received are the size messages that
\* remain.
C10_Fifo ==
  /\ IsPrefix(mb_rcvd, mb_sent)
  /\ Len(mb_sent) - Len(mb_rcvd) = mailbox.size

\* C10 witness: capacity 3, four messages sent and the same four received
\* in order, the fourth not equal to the first; both cursors have wrapped
\* once and stand one slot after the start of the buffer.
C10_Witness ==
  /\ mailbox.capacity = 3
  /\ Len(mb_sent) = 4 /\ mb_rcvd = mb_sent /\ mb_sent[4] # mb_sent[1]
  /\ mailbox.read_ptr = mailbox.msg_size
  /\ mailbox.write_ptr = mailbox.msg_size

InitSpin == SpinInit /\ MboxQuiet /\ SemQuiet /\ SchedQuiet /\ ProcQuiet /\ QueueQuiet /\ IrqQuiet

SpecSpin == InitSpin /\ [][SpinNext]_vars

\* The CPUs that are between a completed spin_lock(l) and the matching
\* spin_unlock(l)
SpinHolders(l) == {c \in SCpu : l \in held[c]}

\* C2: for every spinlock, at most one CPU is between a completed spin_lock
\* and the matching spin_unlock, and while the lock is held its lock word is
\* set and its recorded owner is exactly that CPU.
C2_MutualExclusion ==
  \A l \in SLock :
    /\ Cardinality(SpinHolders(l)) <= 1
    /\ \A c \in SpinHolders(l) : locked[l] = 1 /\ lock_cpu[l] = c

\* C2 witness: one CPU holds a lock while another CPU, having read the lock
\* word as taken, spins in the ldrex loop of spin_lock on the same lock.
C2_Witness ==
  \E l \in SLock : \E c, d \in SCpu :
    /\ c # d /\ l \in held[c]
    /\ spc[d] = "ldrex" /\ sarg[d] = l /\ monitor[d] = l

InitSched == SchedInit /\ SpinInit /\ MboxQuiet /\ SemQuiet /\ ProcQuiet /\ QueueQuiet /\ IrqQuiet
SpecSched == InitSched /\ [][SchedNext]_vars

\* The number of times task t is linked into the sequence q
Occurrences(q, t) == Cardinality({i \in 1..Len(q) : q[i] = t})

RECURSIVE RunQueueLinks(_, _)
RunQueueLinks(t, i) ==
  IF i >= TASK_MAX_PRIORITIES THEN 0
  ELSE Occurrences(sched_queue[i], t) + RunQueueLinks(t, i + 1)

\* The number of lists (run queues and wait lists) task t is linked into
ListLinks(t) == RunQueueLinks(t, 0) + Occurrences(wait_queue, t)

\* The CPUs whose current pointer refers to task t
CurrentOn(t) == {c \in KCpu : cpu_task[c] = t}

\* C1 as stated: whenever the scheduler lock is free, a task is Ready iff it
\* is linked into the run queue of its priority, Sleeping iff it is linked
\* into exactly one wait list, Running iff it is on no list and exactly one
\* CPU's current pointer refers to it, and no task is on more than one list.
C1_StateMatchesLists ==
  sched_lock.locked = 0 =>
    \A t \in KTask :
      /\ task_state[t] = "READY" <=>
           Occurrences(sched_queue[task_priority[t]], t) >= 1
      /\ task_state[t] = "SLEEPING" <=> Occurrences(wait_queue, t) = 1
      /\ task_state[t] = "RUNNING" <=>
           (ListLinks(t) = 0 /\ Cardinality(CurrentOn(t)) = 1)
      /\ ListLinks(t) <= 1

\* C1 amended: as C1, except that a Sleeping task is on the wait list it
\* passed to sched_sleep and on no list if it passed none; a task on a wait
\* list is always Sleeping.
C1_StateMatchesLists_Amended ==
  sched_lock.locked = 0 =>
    \A t \in KTask :
      /\ task_state[t] = "READY" <=>
           Occurrences(sched_queue[task_priority[t]], t) >= 1
      /\ Occurrences(wait_queue, t) >= 1 => task_state[t] = "SLEEPING"
      /\ task_state[t] = "SLEEPING" =>
           Occurrences(wait_queue, t) = (IF targ[t].queue THEN 1 ELSE 0)
      /\ task_state[t] = "RUNNING" <=>
           (ListLinks(t) = 0 /\ Cardinality(CurrentOn(t)) = 1)
      /\ ListLinks(t) <= 1

\* One task sleeps on the wait list, the other one sleeps on no list, and a
\* task has been Ready, Running and Sleeping before
C1_Witness ==
  /\ sched_lock.locked = 0 /\ kpanic = ""
  /\ \E t, u \in KTask :
       /\ t # u
       /\ task_state[t] = "SLEEPING" /\ wait_queue = <<t>>
       /\ task_state[u] = "SLEEPING" /\ ~targ[u].queue /\ task_timer[u]
       /\ woken_by[t] = NotWoken /\ task_sleep_result[u] = -ETIMEDOUT

\* The tasks that sleep on the wait list Q: they called sched_sleep with Q
\* holding the lock L, have released L and have not been woken since
SleepersOn == {t \in KTask : /\ tpc[t] = "sleep_ret" /\ targ[t].queue
                             /\ woken_by[t] = NotWoken}

\* The tasks that wake_all(Q, r) has made Ready and whose sleep has not
\* returned yet
WokenNotReturned == {t \in KTask : /\ woken_by[t].by = "wake"
                                   /\ tpc[t] \in {"sleep_ret", "sleep_relock"}}

\* C3: no wakeup is lost.  When a waker that has acquired L calls
\* wake_all(Q, r), every task that sleeps on Q is linked into Q; a task the
\* call has taken off Q is Ready or Running with r as its sleep result; its
\* sleep returns r, and it does return: the kernel does not panic between
\* the wakeup and the return of the sleep.
C3_NoLostWakeup ==
  /\ (\E w \in KTask : tpc[w] = "wake_call") =>
       \A t \in SleepersOn : Occurrences(wait_queue, t) = 1
  /\ \A t \in WokenNotReturned :
       /\ sched_lock.locked = 0 => task_state[t] \in {"READY", "RUNNING"}
       /\ task_sleep_result[t] = woken_by[t].r
  /\ \A t \in KTask :
       (tpc[t] = "sleep_done" /\ woken_by[t].by = "wake") =>
         sleep_ret[t] = woken_by[t].r
  /\ WokenNotReturned # {} => kpanic = ""

\* The parts of C3 that do not depend on the waker's being switched out
\* while it holds L
C3_NoLostWakeup_Safety ==
  /\ (\E w \in KTask : tpc[w] = "wake_call") =>
       \A t \in SleepersOn : Occurrences(wait_queue, t) = 1
  /\ \A t \in WokenNotReturned :
       /\ sched_lock.locked = 0 => task_state[t] \in {"READY", "RUNNING"}
       /\ task_sleep_result[t] = woken_by[t].r
  /\ \A t \in KTask :
       (tpc[t] = "sleep_done" /\ woken_by[t].by = "wake") =>
         sleep_ret[t] = woken_by[t].r

InitProc == ProcInit /\ SpinInit /\ MboxQuiet /\ SemQuiet /\ SchedQuiet /\ QueueQuiet /\ IrqQuiet
SpecProc == InitProc /\ [][ProcNext]_vars

\* The processes whose descriptor is allocated and not freed
Live == {p \in Pid : process[p].state = "alloc"}

\* The number of links of process p in the child lists
RECURSIVE ChildLinksFrom(_, _)
ChildLinksFrom(p, q) ==
  IF q > MaxPid THEN 0
  ELSE Occurrences(process[q].children, p) + ChildLinksFrom(p, q + 1)

ChildLinks(p) == ChildLinksFrom(p, 1)

\* No process is inside process_create, process_copy, process_destroy or
\* process_wait (it runs in user mode, sleeps in process_wait, or is gone)
Quiescent ==
  \A p \in Pid : ppc[p] \in {"none", "user", "exited", "w_sleep", "embryo"}

\* The process is the zombie that some process_wait has unlinked and has
\* not freed yet
BeingReaped(p) == \E q \in Pid : ppc[q] = "w_free" /\ plocal[q].victim = p

\* C4 as stated: a process_wait(pid, &t, 0) that returns, called with the
\* PID of a child of the caller, returns that PID with t = the status the
\* child passed to process_destroy; called with a PID that is not (or no
\* longer, after it was reaped) a child of the caller it returns -ECHILD;
\* no process is reaped twice.
C4_WaitDestroyRoundTrip ==
  /\ \A k \in Pid :
       (plocal[k].call = "waited" /\ plocal[k].pid > 0 /\ ~plocal[k].nohang) =>
          IF plocal[k].was_child
            THEN /\ plocal[k].ret = plocal[k].pid
                 /\ plocal[k].stat = plocal[plocal[k].pid].status
            ELSE plocal[k].ret = -ECHILD
  /\ \A i, j \in 1..Len(free_log) :
       (free_log[i].via = "wait" /\ free_log[j].via = "wait" /\ i # j) =>
          free_log[i].pid # free_log[j].pid

\* C5 as stated: after any sequence of process_create, process_copy,
\* process_destroy and process_wait, init is the only process without a
\* parent, every other process that is not freed is linked exactly once
\* into the child list of its parent, and no process is in two child lists.
C5_ParentChildTree ==
  Quiescent =>
    /\ {p \in Live : process[p].parent = NULL} = {init_process}
    /\ \A p \in Live \ {init_process} :
         /\ process[p].parent # NULL
         /\ Occurrences(process[process[p].parent].children, p) = 1
    /\ \A p \in Pid : ChildLinks(p) <= 1

\* C5 amended: the processes without a parent are those that process_create
\* made (init is the first of them); a process that process_copy made has,
\* from its resumption until process_wait unlinks it, exactly one parent,
\* which is not freed and whose child list contains it exactly once; no
\* process is ever in two child lists.
C5_ParentChildTree_Amended ==
  /\ \A p \in Live :
       process[p].origin = "create" =>
         (process[p].parent = NULL /\ ChildLinks(p) = 0)
  /\ \A p \in Live :
       (process[p].origin = "copy" /\ ppc[p] # "embryo" /\ ~BeingReaped(p)) =>
         /\ process[p].parent \in Live
         /\ Occurrences(process[process[p].parent].children, p) = 1
  /\ \A p \in Pid : ChildLinks(p) <= 1

\* A second process made by process_create runs beside init, and a process
\* made by process_copy has been moved to init by its parent's exit
C5_Witness ==
  /\ Quiescent
  /\ \E p \in Live \ {init_process} : process[p].origin = "create"
  /\ \E p \in Live : /\ process[p].origin = "copy"
                     /\ process[p].creator # init_process
                     /\ process[p].parent = init_process
                     /\ Occurrences(process[init_process].children, p) = 1

\* C6 as stated: the PID hash contains exactly the tasks of the processes
\* that have been allocated and not yet freed.
C6_PidHashMatchesProcesses == pid_hash = Live

\* C7 as stated: every process_free is the one of process_wait, run by the
\* parent the process has at that moment, on a zombie, never by the process
\* itself; no descriptor is freed twice.
C7_FreedOnlyByParentWait ==
  /\ \A i \in 1..Len(free_log) :
       LET e == free_log[i]
       IN e.via = "wait" /\ e.by = e.parent /\ e.zombie /\ e.by # e.pid
  /\ \A i, j \in 1..Len(free_log) : i # j => free_log[i].pid # free_log[j].pid

\* C7 amended: a process that has been resumed is freed only by
\* process_wait, run by the parent it has at that moment, after it became a
\* zombie, never by itself; a process whose construction failed in
\* process_create or process_copy is freed by its creator before it was
\* linked or resumed; no descriptor is freed twice.
C7_FreedOnlyByParentWait_Amended ==
  /\ \A i \in 1..Len(free_log) :
       LET e == free_log[i]
       IN IF e.via = "wait"
            THEN e.started /\ e.by = e.parent /\ e.zombie /\ e.by # e.pid
            ELSE /\ ~e.started /\ ~e.zombie /\ e.parent = NULL
                 /\ e.by = e.creator
  /\ \A i, j \in 1..Len(free_log) : i # j => free_log[i].pid # free_log[j].pid
  /\ \A p \in Pid :
       process[p].state = "freed" <=>
         \E i \in 1..Len(free_log) : free_log[i].pid = p
  /\ \A p \in Pid :
       (ppc[p] \notin {"none", "embryo"} /\ ~process[p].zombie) =>
         process[p].state = "alloc"

\* Init has reaped its own child and then a zombie that the exit of that
\* child had handed over to it
C7_Witness ==
  /\ Len(free_log) = 2
  /\ free_log[1].via = "wait" /\ free_log[1].by = init_process
  /\ free_log[1].creator = init_process
  /\ free_log[2].via = "wait" /\ free_log[2].by = init_process
  /\ free_log[2].creator = free_log[1].pid
  /\ free_log[2].parent = init_process

\* C8: a zombie's address space has been destroyed, file_close has been
\* called for every one of its open files and its cwd reference has been
\* released.
C8_ZombieResourcesReleased ==
  \A p \in Pid :
    process[p].zombie =>
      /\ process[p].vm = "destroyed"
      /\ process[p].closed = process[p].files
      /\ ~process[p].cwd

\* A parent that holds no lock any more is about to free a zombie that had
\* an address space, an open file and a cwd
C8_Witness ==
  \E p, q \in Pid :
    /\ ppc[q] = "w_free" /\ plocal[q].victim = p
    /\ process[p].zombie /\ process[p].origin = "copy"
    /\ process[p].files # {} /\ process[p].closed = process[p].files
    /\ process[p].vm = "destroyed" /\ ~process[p].cwd

\* The pairs <<A, B>>: A is Running, B is Ready and B has the strictly
\* higher priority (the smaller priority number)
PriorityInversions ==
  {ab \in KTask \X KTask :
     /\ task_state[ab[1]] = "RUNNING" /\ task_state[ab[2]] = "READY"
     /\ task_priority[ab[2]] < task_priority[ab[1]]}

\* No CPU is between sched_isr_enter and the end of sched_isr_exit
NoIsrInProgress == \A c \in KCpu : cpu_isr[c] = "none"

\* C11: a task B that becomes Ready while a task A of strictly lower
\* priority is Running preempts it by the next release of the scheduler
\* lock outside an ISR, or by the next outermost ISR exit: whenever the
\* scheduler lock is free and no ISR is in progress, no Ready task has a
\* strictly higher priority than a Running task, whichever CPU made it Ready.
C11_PreemptionByNextBoundary ==
  (sched_lock.locked = 0 /\ NoIsrInProgress /\ kpanic = "") =>
    PriorityInversions = {}

\* The tasks that are between a spin_lock and the spin_unlock of the
\* primitive's own lock (the lock a sleeper passes to sched_sleep and a
\* waker holds around sched_wakeup_all)
HoldsUserLock ==
  {t \in KTask : tpc[t] \in {"sleep_call", "sleep_locked", "sleep_done",
                             "wake_call", "wake_loop", "wake_done"}}

\* C12: a task is never switched out while its CPU holds a spinlock other
\* than the scheduler lock: a task that holds the primitive's lock is the
\* Running task of its CPU, and a waker is not switched out by the wake-up
\* before it has released that lock.
C12_NoSwitchHoldingSpinlock ==
  \A t \in HoldsUserLock :
    /\ task_state[t] = "RUNNING"
    /\ \E c \in KCpu : cpu_task[c] = t /\ cpu_ctx[c] = "switched"

\* Process k executes the section of process_destroy under process_lock in
\* this step
DestroysNow(k) == ppc[k] = "d_lock" /\ ppc'[k] = "d_task"

\* C13: after process_destroy(s) by a process P every former child of P has
\* parent = init and is in init's child list, the children that were zombies
\* are still zombies (and no other child became one), P is a zombie with
\* exit_code = s, and the sleepers that are woken are exactly init if a
\* reparented child was a zombie, and P's parent.
C13_DestroyPostState ==
  [][\A k \in Pid : DestroysNow(k) =>
       LET kids == ListSet(process[k].children)
           has_zombies == \E c \in kids : process[c].zombie
       IN /\ \A c \in kids :
               /\ process'[c].parent = init_process
               /\ Occurrences(process'[init_process].children, c) = 1
               /\ process'[c].zombie = process[c].zombie
          /\ process'[k].zombie
          /\ process'[k].exit_code = plocal[k].status
          /\ \A q \in Pid :
               ppc[q] = "w_sleep" =>
                 (ppc'[q] = "w_lock" <=>
                    \/ q = init_process /\ has_zombies
                    \/ q = process[k].parent)]_vars

\* A process that was made by process_copy has left the locked section of
\* process_destroy; a zombie child of its own is now a child of init, which
\* runs its process_wait loop again
C13_Witness ==
  \E k \in Pid \ {init_process}, c \in Pid :
    /\ ppc[k] = "d_task" /\ process[k].zombie /\ process[k].parent # NULL
    /\ process[c].creator = k /\ process[c].zombie
    /\ process[c].parent = init_process
    /\ c \in ListSet(process[init_process].children)
    /\ ppc[init_process] = "w_lock"

InitOrphan == OrphanInit /\ SpinInit /\ MboxQuiet /\ SemQuiet /\ SchedQuiet /\ QueueQuiet /\ IrqQuiet
SpecOrphan == InitOrphan /\ [][OrphanNext]_vars

\* init has chosen the victim of its first reaping, in a process_wait(-1)
InitFirstReap ==
  /\ ppc[init_process] = "w_free" /\ plocal[init_process].pid = -1
  /\ \A i \in 1..Len(free_log) : free_log[i].by # init_process

\* The orphan process has exited with both children still its own: they
\* have been handed to init
OrphansHandedOver ==
  /\ process[OrphanP].zombie
  /\ \A c \in ListSet(OrphanKids) : process[c].parent = init_process

\* init's first process_wait(-1) after the exit has returned
InitFirstReapDone ==
  /\ ppc[init_process] = "user" /\ plocal[init_process].call = "waited"
  /\ plocal[init_process].pid = -1
  /\ Cardinality({i \in 1..Len(free_log) :
                    free_log[i].by = init_process}) = 1

Matching(k, pid) ==
  {c \in ListSet(process[k].children) : pid = -1 \/ c = pid}

\* Process k executes one pass of the loop of process_wait in this step
ScansNow(k) == ppc[k] = "w_lock" /\ ppc'[k] # "w_lock"

\* C15: process_wait with WNOHANG, when at least one child matches the
\* selector and no matching child is a zombie, returns 0 without sleeping,
\* without writing through the status pointer and without changing the
\* child list.
C15_NoHangReturnsZero ==
  [][\A k \in Pid :
       (/\ ScansNow(k) /\ plocal[k].nohang
        /\ Matching(k, plocal[k].pid) # {}
        /\ \A c \in Matching(k, plocal[k].pid) : ~process[c].zombie) =>
         /\ ppc'[k] = "user" /\ plocal'[k].call = "waited"
         /\ plocal'[k].ret = 0
         /\ plocal'[k].stat = plocal[k].stat
         /\ process'[k].children = process[k].children
         /\ free_log' = free_log]_vars

InitSem == SemInit /\ MboxQuiet /\ SpinInit /\ SchedQuiet /\ ProcQuiet /\ QueueQuiet /\ IrqQuiet
SpecSem == InitSem /\ [][SemNext]_vars

\* A task that slept in get returns from it with an error in this step
GetTimesOutNow(t) ==
  /\ mt_op[t] = "get" /\ mt_state[t] = "ready" /\ mt_sleep_result[t] < 0
  /\ mt_state'[t] = "run"

\* A put is executed in this step while the counter is 0 and a task sleeps
\* in get
PutToSleeperNow ==
  /\ sem_puts' = sem_puts + 1
  /\ semaphore.count = 0 /\ semaphore.queue # << >>

\* A task woken by a put goes on in this step while the token is there
WokenTakesNow(t) ==
  /\ mt_op[t] = "get" /\ mt_state[t] = "ready" /\ mt_sleep_result[t] = 0
  /\ semaphore.count > 0 /\ mt_state'[t] = "run"

\* C16: semaphore tokens are conserved: the counter is never negative and
\* the number of gets that returned 0 is the initial count plus the number
\* of puts minus the counter; a get that times out returns an error and
\* consumes no token; a put on counter 0 wakes a task blocked in get with
\* result 0, and that task then returns 0 and takes the token (counter 0
\* again when the rendezvous is between two tasks).
C16_TokensConserved ==
  /\ [](/\ semaphore.count >= 0
        /\ sem_gets = sem_initial + sem_puts - semaphore.count)
  /\ [][\A t \in MTask :
          /\ GetTimesOutNow(t) =>
               /\ mt_ret'[t] < 0
               /\ semaphore'.count = semaphore.count /\ sem_gets' = sem_gets
          /\ WokenTakesNow(t) =>
               /\ mt_ret'[t] = 0
               /\ semaphore'.count = semaphore.count - 1
    ]_vars
  /\ [][PutToSleeperNow =>
          \E w \in ListSet(semaphore.queue) :
            /\ mt_state'[w] = "ready" /\ mt_sleep_result'[w] = 0
            /\ \A o \in ListSet(semaphore.queue) :
                 mt_priority[o] >= mt_priority[w]
            /\ semaphore'.count = 1]_vars

\* The rendezvous: the counter started at 0, one task slept in get, the
\* other one called put once, and the sleeper has returned 0 with the
\* counter at 0
C16_Witness ==
  /\ sem_initial = 0 /\ sem_puts = 1 /\ sem_gets = 1
  /\ semaphore.count = 0
  /\ \E t \in MTask :
       /\ sem_slept[t] /\ mt_state[t] = "run" /\ mt_op[t] = "none"
       /\ mt_ret[t] = 0

\* Process k executes the task_resume of process_copy in this step: its
\* child may enter user mode from now on
ResumesChildNow(k) == ppc[k] = "c_resume" /\ ppc'[k] = "c_ret"

\* Process k returns from a process_copy that has made a child in this step
CopyReturnsNow(k) == ppc[k] = "c_ret" /\ ppc'[k] = "user"

\* C17: a successful process_copy returns to the parent the PID of the
\* child (positive, the PID the child was registered under), and the child
\* enters user mode with a trap frame equal to the parent's at the time of
\* the fork except that r0 is 0.
C17_ForkReturnValues ==
  [][\A k \in Pid :
       /\ ResumesChildNow(k) =>
            LET child == plocal[k].child
            IN /\ process[child].tf.r0 = 0
               /\ process[child].tf.regs = process[k].tf.regs
               /\ ppc'[child] = "user"
       /\ CopyReturnsNow(k) =>
            /\ plocal'[k].ret = plocal[k].child
            /\ plocal'[k].ret > 0]_vars

InitCreate == ProcInit /\ SpinInit /\ MboxQuiet /\ SemQuiet /\ SchedQuiet /\ QueueQuiet /\ IrqQuiet
SpecCreate == InitCreate /\ [][CreateNext]_vars

\* process_create has been called for PID p in this step
CreatesNow(p) == next_pid = p - 1 /\ next_pid' = p /\ plocal'[p].call = "create"

\* The negative error code of the step that fails
StepError(failed) == IF failed = "load_fail" THEN -EINVAL ELSE -ENOMEM

\* C18: if a step of process_create fails (process_alloc, process_setup_vm,
\* process_load_binary including the reservation of the user stack), the
\* call returns that step's negative error code, the address space is
\* destroyed if it was created, the process is freed, the task is not
\* resumed and the output pointer is not written.
C18_CreateFailureUnwinds ==
  /\ process_create_result("alloc_fail").r = StepError("alloc_fail")
  /\ ~process_create_result("alloc_fail").resumed
  /\ [][\A p \in Pid :
          (CreatesNow(p) /\ plocal'[p].failed # "none") =>
            /\ plocal'[p].ret = StepError(plocal'[p].failed)
            /\ process'[p].state = "freed"
            /\ process'[p].vm \in {"none", "destroyed"}
            /\ ppc'[p] # "user"
            /\ plocal'[p].pstore = NULL]_vars

\* The number of ISRs that CPU c has entered and not left
IsrInProgress(c) ==
  Len(isr_stack[c]) + (IF cpu_isr[c] = "none" THEN 0 ELSE 1)

\* The step is a sched_isr_exit that panics
IsrExitPanicsNow == kpanic = "" /\ kpanic' = "isr_nesting <= 0"

\* C19: on every CPU isr_nesting is >= 0 in every reachable state and, for
\* every sequence of nested sched_isr_enter / sched_isr_exit calls, equals
\* the number of ISRs being handled on that CPU; sched_isr_exit called with
\* isr_nesting <= 0 panics instead of decrementing.
C19_IsrNestingCounts ==
  /\ [](\A c \in KCpu :
          isr_nesting[c] >= 0 /\ isr_nesting[c] = IsrInProgress(c))
  /\ [][/\ IsrExitPanicsNow =>
             /\ isr_nesting' = isr_nesting
             /\ \E c \in KCpu : isr_nesting[c] <= 0
        /\ \A c \in KCpu :
             isr_nesting'[c] < isr_nesting[c] =>
               isr_nesting[c] > 0 /\ kpanic' = ""]_vars

\* An ISR has interrupted an ISR on one CPU, and on another CPU
\* sched_isr_exit was called outside an ISR and panicked
C19_Witness ==
  /\ kpanic = "isr_nesting <= 0"
  /\ \E c \in KCpu : isr_nesting[c] = 2 /\ Len(isr_stack[c]) = 1
  /\ \E c \in KCpu : isr_nesting[c] = 0 /\ cpu_isr[c] = "none"

\* CPU c executes the holding check of spin_lock in this step
SpinLockChecksNow(c) == spc[c] = "lock_check" /\ spc'[c] # "lock_check"

\* CPU c calls spin_unlock(l) in this step
SpinUnlocksNow(c, l) ==
  spc[c] = "idle" /\ spc'[c] \in {"clear_cpu", "panic"} /\ sarg'[c] = l

\* C20: spin_lock called by a CPU that already holds the lock panics instead
\* of spinning, and spin_unlock called by a CPU that does not hold the lock
\* (lock free or held by another CPU) panics and leaves the lock word and
\* the owner unchanged.
C20_MisusePanics ==
  /\ [](\A c \in SCpu :
          spc[c] \in {"ldrex", "strex", "set_cpu"} => sarg[c] \notin held[c])
  /\ [][\A c \in SCpu :
          /\ SpinLockChecksNow(c) /\ sarg[c] \in held[c] =>
               /\ spanic' /\ spc'[c] = "panic"
               /\ locked' = locked /\ lock_cpu' = lock_cpu
          /\ \A l \in SLock :
               SpinUnlocksNow(c, l) /\ l \notin held[c] =>
                 /\ spanic' /\ spc'[c] = "panic"
                 /\ locked' = locked /\ lock_cpu' = lock_cpu]_vars

\* A CPU has called spin_unlock on a lock that another CPU holds, and has
\* panicked
C20_Witness ==
  \E c, d \in SCpu : \E l \in SLock :
    /\ c # d /\ l \in held[d] /\ l \notin held[c]
    /\ spanic /\ spc[c] = "panic" /\ sarg[c] = l
    /\ locked[l] = 1 /\ lock_cpu[l] = d

\* C21: on each CPU, for every properly nested sequence of spin_lock /
\* spin_unlock / spin_holding calls, interrupts are disabled while the
\* IRQ-save depth is > 0; the pre-disable interrupt flag is recorded only on
\* the transition of the depth from 0 to 1, as the state the interrupts had
\* then; and when the depth returns to 0 the interrupts are enabled exactly
\* if they were before the outermost acquisition.
C21_IrqSaveNesting ==
  /\ [](\A c \in SCpu :
          /\ irq_save_count[c] >= 0
          /\ irq_save_count[c] > 0 => ~irq_enabled[c]
          /\ held[c] # {} => irq_save_count[c] > 0)
  /\ [][\A c \in SCpu :
          /\ irq_flags'[c] # irq_flags[c] =>
               /\ irq_save_count[c] = 0 /\ irq_save_count'[c] = 1
          /\ irq_save_count[c] = 0 /\ irq_save_count'[c] = 1 =>
               irq_flags'[c] = irq_enabled[c]
          /\ irq_save_count[c] > 0 /\ irq_save_count'[c] = 0 =>
               /\ irq_save_count[c] = 1
               /\ irq_enabled'[c] = irq_flags[c]]_vars

\* A CPU that had its interrupts enabled holds both locks, one acquired
\* inside the other, and is inside a spin_holding call: depth 3, interrupts
\* disabled, the flag of the outermost acquisition still recorded
C21_Witness ==
  \E c \in SCpu :
    /\ held[c] = SLock /\ spc[c] = "holding"
    /\ irq_save_count[c] = 3 /\ irq_flags[c] /\ ~irq_enabled[c]

\* Task t is linked into a run queue or into the wait list
OnSomeList(t) ==
  \/ \E i \in DOMAIN sched_queue : Occurrences(sched_queue[i], t) > 0
  \/ Occurrences(wait_queue, t) > 0

\* C22: a task's kernel stack and task object are freed exactly once, only
\* after the task called task_exit (its state became Destroyed) and only
\* after it has been switched away from (no CPU's current pointer refers to
\* it); a freed task is on no list and never runs again, and a task that
\* has not exited is never freed.
C22_FreedOnceAfterExit ==
  /\ [](\A t \in KTask :
          /\ task_freed[t] <= 1
          /\ tpc[t] # "exited" => task_freed[t] = 0
          /\ task_freed[t] = 1 =>
               /\ task_state[t] = "NONE" /\ ~OnSomeList(t)
               /\ task_cpu[t] = NULL /\ \A c \in KCpu : cpu_task[c] # t)
  /\ [][\A t \in KTask :
          task_freed'[t] # task_freed[t] =>
            /\ task_freed[t] = 0 /\ task_freed'[t] = 1
            /\ tpc[t] = "exited" /\ task_state[t] = "NONE"
            /\ task_cpu[t] = NULL /\ \A c \in KCpu : cpu_task[c] # t
            /\ ~OnSomeList(t)]_vars

\* One task has exited and has been freed while the other one is running
C22_Witness ==
  \E t, u \in KTask : \E c \in KCpu :
    /\ task_freed[t] = 1 /\ tpc[t] = "exited"
    /\ u # t /\ task_state[u] = "RUNNING" /\ cpu_task[c] = u
    /\ task_freed[u] = 0

\* The tasks sleeping on the mailbox
MbWaiters == ListSet(mailbox.receivers) \cup ListSet(mailbox.senders)

\* The step is the critical section of k_mailbox_fini or k_mailbox_destroy
MbDestroysNow == \E t \in MTask : k_mailbox_fini(t) \/ k_mailbox_destroy(t)

\* Task t, woken by the destruction of the mailbox, takes its next step
MbReturnsFromDestroyNow(t) ==
  /\ mt_state[t] = "ready" /\ mt_sleep_result[t] = -EINVAL
  /\ mt_state'[t] # "ready"

\* C23: when a mailbox is destroyed (k_mailbox_destroy or k_mailbox_fini),
\* every task sleeping in timed_send or timed_receive on it is made Ready
\* and its call returns -EINVAL without transferring a message, and both
\* wait lists are empty afterwards.
C23_DestroyWakesWaiters ==
  [][/\ MbDestroysNow =>
          /\ \A w \in MbWaiters :
               mt_state'[w] = "ready" /\ mt_sleep_result'[w] = -EINVAL
          /\ mailbox'.receivers = << >> /\ mailbox'.senders = << >>
          /\ mb_sent' = mb_sent /\ mb_rcvd' = mb_rcvd
     /\ \A t \in MTask :
          MbReturnsFromDestroyNow(t) =>
            /\ mt_state'[t] = "run" /\ mt_ret'[t] = -EINVAL
            /\ mt_op'[t] = "none"
            /\ mb_sent' = mb_sent /\ mb_rcvd' = mb_rcvd
            /\ mb_mem' = mb_mem /\ mailbox' = mailbox]_vars

\* The sleep timer of task t fires in this step: task_sleep_callback(t)
TimerFiresNow(t) == \E c \in KCpu : task_sleep_callback(c, t)

\* Task t is between the sched_yield of its sched_sleep and the return of
\* that sched_sleep
InSleep(t) == tpc[t] \in {"sleep_ret", "sleep_relock", "sleep_done"}

\* C24: a task that sleeps with a nonzero timeout and is not woken before
\* the timer fires (it is still Sleeping then) is removed from the wait list
\* it sleeps on and enqueued on the run queue of its priority exactly once,
\* and its sleep returns -ETIMEDOUT; a task sleeping with timeout 0 has no
\* running timer and is never woken by one.
C24_TimeoutWakesSleeper ==
  /\ [](\A t \in KTask :
          /\ task_timer[t] => InSleep(t) /\ targ[t].timeout
          /\ InSleep(t) /\ woken_by[t].by = "timer" => targ[t].timeout
          /\ tpc[t] = "sleep_done" /\ woken_by[t].by = "timer" =>
               sleep_ret[t] = -ETIMEDOUT)
  /\ [][\A t \in KTask :
          TimerFiresNow(t) /\ task_state[t] = "SLEEPING" =>
            /\ targ[t].timeout
            /\ Occurrences(wait_queue', t) = 0
            /\ \A i \in DOMAIN sched_queue :
                 /\ Occurrences(sched_queue[i], t) = 0
                 /\ Occurrences(sched_queue'[i], t) =
                      IF i = task_priority[t] THEN 1 ELSE 0
            /\ task_state'[t] = "READY"
            /\ task_sleep_result'[t] = -ETIMEDOUT
            /\ woken_by'[t].by = "timer"]_vars

\* A task that slept on the wait list with a timeout was not woken, its
\* timer fired, and its sched_sleep has returned -ETIMEDOUT
C24_Witness ==
  \E t \in KTask :
    /\ tpc[t] = "sleep_done" /\ targ[t].queue /\ targ[t].timeout
    /\ woken_by[t].by = "timer" /\ sleep_ret[t] = -ETIMEDOUT
    /\ Occurrences(wait_queue, t) = 0

\* The position of a task in a history of arrivals
OrderIndex(order, t) == CHOOSE i \in 1..Len(order) : order[i] = t

\* The tasks on the run queues
OnRunQueues ==
  UNION {ListSet(q_sched.rq[i]) : i \in 0..(TASK_MAX_PRIORITIES - 1)}

\* The scheduler loop dispatches a task in this step
QDispatchesNow == q_task = NULL /\ q_task' # NULL

\* C25: the scheduler loop dispatches from the non-empty run queue with the
\* smallest priority index, and within one priority in the order of the
\* enqueues: the task it dispatches was on a run queue, no task that is on
\* a run queue at the dequeue has a smaller priority value, and every task
\* of the same priority on a run queue became Ready after it.
C25_DispatchPriorityFifo ==
  /\ [](OnRunQueues = ListSet(q_ready_order))
  /\ [][QDispatchesNow =>
          /\ q_task' \in OnRunQueues
          /\ \A i \in 0..(TASK_MAX_PRIORITIES - 1) :
               i < task_priority[q_task'] => q_sched.rq[i] = << >>
          /\ \A u \in OnRunQueues \ {q_task'} :
               /\ task_priority[q_task'] <= task_priority[u]
               /\ task_priority[u] = task_priority[q_task'] =>
                    OrderIndex(q_ready_order, q_task') <
                      OrderIndex(q_ready_order, u)]_vars

\* Task 3 has been dispatched ahead of task 1 of the same priority, which
\* is still on their run queue, and is Running
C25_Witness ==
  /\ q_task = 3 /\ q_sched.st[3] = "RUNNING"
  /\ q_sched.rq[task_priority[3]] = <<1>>
  /\ task_priority[1] = task_priority[3]

\* The sleepers of the wait list
QSleepers == ListSet(q_sched.wq)

\* The sleeper wake-one has to take: of the smallest priority value, and of
\* those the one that went to sleep first
QFirstOfHighest ==
  CHOOSE h \in QSleepers :
    \A u \in QSleepers \ {h} :
      \/ task_priority[h] < task_priority[u]
      \/ /\ task_priority[h] = task_priority[u]
         /\ OrderIndex(q_sleep_order, h) < OrderIndex(q_sleep_order, u)

\* A sched_wakeup_one on a non-empty wait list runs in this step
QWakesOneNow ==
  q_sched.wq # << >> /\ \E result \in WakeResults : QWakeupOne(result)

\* C26: sched_wakeup_one on a non-empty wait list takes exactly one sleeper
\* off the list and makes it Ready: the one with the smallest priority
\* value, and among sleepers of that priority the one that went to sleep
\* first; the other sleepers stay on the list, in their order, Sleeping and
\* with their sleep results; on an empty list it changes nothing.
C26_WakeOneHighestFifo ==
  /\ [](/\ QSleepers = ListSet(q_sleep_order)
        /\ QSleepers = {t \in QTask : q_sched.st[t] = "SLEEPING"}
        /\ q_sched.wq = << >> =>
             \A result \in WakeResults :
               LET w == sched_wakeup_one(q_sched, q_task, q_nesting, result)
               IN w.sd = q_sched /\ w.woken = NULL /\ ~w.yielded)
  /\ [][QWakesOneNow =>
          LET h == QFirstOfHighest
          IN /\ q_sched'.wq = ListRemove(q_sched.wq, h)
             /\ Len(q_sched'.wq) = Len(q_sched.wq) - 1
             /\ q_sched'.st[h] = "READY"
             /\ h \in ListSet(q_sched'.rq[task_priority[h]])
             /\ q_sched'.sr[h] \in WakeResults
             /\ \A u \in QSleepers \ {h} :
                  /\ q_sched'.st[u] = "SLEEPING"
                  /\ q_sched'.sr[u] = q_sched.sr[u]
                  /\ \A i \in 0..(TASK_MAX_PRIORITIES - 1) :
                       u \notin ListSet(q_sched'.rq[i])]_vars

\* Task 3 went to sleep before task 1 of the same priority and has been
\* woken by a wake-one that left task 1 asleep on the list
C26_Witness ==
  /\ q_sched.wb[3].by = "wake" /\ q_sched.st[3] = "READY"
  /\ q_sched.wq = <<1>> /\ q_sched.st[1] = "SLEEPING"
  /\ task_priority[1] = task_priority[3]

\* sched_may_yield(candidate) runs in this step on a CPU that has a running
\* task: from task_resume(candidate), or from a sched_wakeup_one that takes
\* the candidate off the wait list
QMayYieldCalled(candidate) ==
  /\ q_task # NULL
  /\ \/ QResume(candidate) /\ q_sched.st[candidate] = "SUSPENDED"
     \/ /\ candidate = WakeupScan(task_priority, q_sched.wq, 1, NULL)
        /\ \E result \in WakeResults : QWakeupOne(result)

\* The running task has a strictly lower priority than the candidate
QLowerThan(candidate) == task_priority[q_task] > task_priority[candidate]

\* The running task has been enqueued as Ready and the CPU has yielded
QYielded ==
  /\ q_task' = NULL
  /\ q_sched'.st[q_task] = "READY"
  /\ q_sched'.rq[task_priority[q_task]] # << >>
  /\ LET q == q_sched'.rq[task_priority[q_task]] IN q[Len(q)] = q_task

\* The running task goes on running, on no run queue
QKeepsRunning ==
  /\ q_task' = q_task
  /\ q_sched'.st[q_task] = "RUNNING"
  /\ q_task \notin {t \in QTask : \E i \in 0..(TASK_MAX_PRIORITIES - 1) :
                                    t \in ListSet(q_sched'.rq[i])}

\* C27 as stated: sched_may_yield(candidate) on a CPU with a running task
\* enqueues the running task and yields if its priority is strictly lower
\* than the candidate's and isr_nesting is 0, and in every other case sets
\* the reschedule flag of the running task.
C27_FlagInEveryOtherCase ==
  [][\A candidate \in QTask :
       QMayYieldCalled(candidate) =>
         IF QLowerThan(candidate) /\ q_nesting = 0
           THEN QYielded
           ELSE q_sched'.fl[q_task]]_vars

\* C27: sched_may_yield(candidate) on a CPU with a running task: if the
\* running task's priority is strictly lower than the candidate's and
\* isr_nesting is 0, the running task is enqueued as Ready at the back of
\* its run queue and the CPU yields, its flag unchanged; if the priority is
\* strictly lower and isr_nesting > 0, the reschedule flag is set and the
\* task goes on running; if the priority is not strictly lower, the flag is
\* left as it is and the task goes on running.
C27_MayYield ==
  [][\A candidate \in QTask :
       QMayYieldCalled(candidate) =>
         /\ (QLowerThan(candidate) /\ q_nesting = 0) =>
              QYielded /\ q_sched'.fl[q_task] = q_sched.fl[q_task]
         /\ (QLowerThan(candidate) /\ q_nesting > 0) =>
              QKeepsRunning /\ q_sched'.fl[q_task]
         /\ ~QLowerThan(candidate) =>
              QKeepsRunning /\ q_sched'.fl[q_task] = q_sched.fl[q_task]]_vars

\* Inside an ISR a task of a higher priority than the running one has been
\* made Ready: the running task has the flag and still runs
C27_Witness ==
  /\ q_nesting > 0 /\ q_task # NULL /\ q_sched.fl[q_task]
  /\ q_sched.st[q_task] = "RUNNING"
  /\ \E t \in QTask : /\ task_priority[t] < task_priority[q_task]
                       /\ q_sched.st[t] = "READY"

\* The tasks on the run queue of priority i
OnRunQueue(i) == ListSet(sched_queue[i])

\* C28: a reschedule flag set inside an ISR is honoured exactly at the
\* CPU's outermost sched_isr_exit: a task that has the flag is Running on a
\* CPU that is inside an ISR; a sched_isr_exit that leaves isr_nesting > 0,
\* or finds no flag, switches nobody out and changes no task's state, flag
\* or run queue; the outermost exit with the flag set clears it, enqueues
\* the interrupted task as Ready at the back of its run queue and switches
\* the CPU to the scheduler; and nothing else ever clears the flag.
C28_FlagHonouredAtOutermostExit ==
  /\ [](\A t \in KTask :
          task_flags[t] =>
            /\ task_state[t] = "RUNNING"
            /\ \E c \in KCpu : cpu_task[c] = t /\ isr_nesting[c] > 0)
  /\ [][\A c \in KCpu :
          (sched_isr_exit(c) /\ kpanic' = "") =>
            LET t == cpu_task[c]
            IN IF isr_nesting[c] = 1 /\ t # NULL /\ task_flags[t]
                 THEN /\ ~task_flags'[t]
                      /\ task_state'[t] = "READY"
                      /\ sched_queue'[task_priority[t]] =
                           Append(sched_queue[task_priority[t]], t)
                      /\ cpu_ctx'[c] = "returned"
                      /\ isr_nesting'[c] = 0
                 ELSE /\ cpu_ctx'[c] = cpu_ctx[c]
                      /\ UNCHANGED <<sched_queue, task_state, task_flags>>]_vars
  /\ [][\A t \in KTask :
          (task_flags[t] /\ ~task_flags'[t]) =>
            \E c \in KCpu : /\ cpu_task[c] = t /\ isr_nesting[c] = 1
                            /\ sched_isr_exit(c)]_vars

\* A task that got the flag in an ISR has been switched out by the
\* outermost sched_isr_exit: Ready on its run queue, the flag clear, its
\* CPU outside any ISR
C28_Witness ==
  \E t \in KTask :
    /\ tisr[t] /\ task_state[t] = "READY" /\ ~task_flags[t]
    /\ t \in OnRunQueue(task_priority[t])
    /\ \E c \in KCpu : cpu_task[c] = t /\ isr_nesting[c] = 0
                        /\ cpu_ctx[c] = "returned"

\* A receive, a send succeeds in this step
MbReceiveSucceedsNow == Len(mb_rcvd') = Len(mb_rcvd) + 1
MbSendSucceedsNow == Len(mb_sent') = Len(mb_sent) + 1

\* The attempt of task t fails with -EAGAIN in this step: a non-blocking
\* call returns it, or a blocking call goes (back) to sleep
MbFailsNow(t) ==
  \/ mt_state[t] # "sleep" /\ mt_state'[t] = "sleep"
  \/ /\ \/ k_mailbox_try_receive(t)
        \/ \E message \in Messages(mailbox.msg_size) :
             k_mailbox_try_send(t, message)
     /\ mt_ret'[t] = -EAGAIN

\* The sleepers made Ready in this step
MbWokenNow == {t \in MTask : mt_state[t] = "sleep" /\ mt_state'[t] = "ready"}

\* The step applies wake-one to the list if called is TRUE, and otherwise
\* leaves the list and its sleepers alone
MbWakesOneIff(called, list, list_after) ==
  /\ list_after = (IF called THEN MbWakeupOne(list).list ELSE list)
  /\ MbWokenNow = (IF called THEN {MbWakeupOne(list).woken} \ {NULL} ELSE {})
  /\ \A t \in MbWokenNow : mt_sleep_result'[t] = 0

DispatchLogs ==
  {<<"enter", "mask", "eoi", "handler", "unmask", "exit">>,
   <<"enter", "mask", "eoi", "handler", "exit">>,
   <<"enter", "mask", "eoi", "unmask", "exit">>}

\* CPU c has made the call named n in its current or last dispatch
Logged(c, n) == \E i \in 1..Len(irq_cpu[c].log) : irq_cpu[c].log[i] = n

\* CPU c calls the installed handler of line l in this step
HandlerCalledNow(c, l) ==
  /\ irq_cpu[c].pc = "call" /\ irq_cpu[c].irq = l
  /\ irq_line[l].handler # "none"
  /\ \E ret \in {0, 1} : DispatchCall(c, ret)

\* C30: the calls of every dispatch are made in the order ISR enter, mask
\* of the line, EOI, call of the installed handler, ISR exit; the line is
\* unmasked inside the dispatch, between the handler and the ISR exit,
\* exactly if the handler returned nonzero or no handler is installed; and
\* the installed handler of a line is never called again before the line
\* has been unmasked after its previous call.
C30_DispatchOrder ==
  /\ [](\A c \in KCpu :
          /\ \E full \in DispatchLogs : IsPrefix(irq_cpu[c].log, full)
          /\ (irq_cpu[c].pc \in {"end", "idle"} /\ Logged(c, "eoi")) =>
               (Logged(c, "unmask") <=>
                  (irq_cpu[c].called = "none" \/ irq_cpu[c].should_unmask # 0))
          /\ Logged(c, "handler") <=>
               (irq_cpu[c].called # "none" /\ irq_cpu[c].pc \notin
                  {"begin", "mask", "eoi", "call"}))
  /\ [][\A c \in KCpu, l \in IrqLine :
          HandlerCalledNow(c, l) =>
            /\ ~irq_line[l].entered
            /\ irq_line[l].masked /\ ~irq_line[l].active
            /\ \A d \in KCpu \ {c} :
                 irq_cpu[d].irq = l => irq_cpu[d].pc \in {"end", "idle"}]_vars

\* A dispatch whose handler asked for the unmask has finished, and the
\* same line is being dispatched again on the other CPU, in its handler
\* call
C30_Witness ==
  \E c, d \in KCpu :
    /\ c # d /\ irq_cpu[c].irq = irq_cpu[d].irq
    /\ irq_cpu[c].log = <<"enter", "mask", "eoi", "handler", "unmask", "exit">>
    /\ irq_cpu[c].should_unmask # 0
    /\ irq_cpu[d].log = <<"enter", "mask", "eoi", "handler">>

\* The lines attached in threaded mode
ThreadedLines == {l \in IrqLine : irq_line[l].handler = "thread"}

\* An occurrence of line l is still to be served: a CPU is in its dispatch
\* between the mask and the stub, the semaphore has been put, or the
\* bottom-half handler runs or has asked for the unmask
OccurrenceOpen(l) ==
  \/ \E c \in KCpu : /\ irq_cpu[c].irq = l
                      /\ irq_cpu[c].pc \in {"eoi", "call"}
  \/ irq_line[l].sem > 0
  \/ irq_line[l].thread \in {"handler", "unmask"}

\* C31: in threaded mode the line stays masked from its dispatch until the
\* bottom-half handler of that occurrence has returned nonzero and the
\* thread unmasks it (only the thread ever unmasks it); the semaphore's
\* count never exceeds 1; every run of the bottom-half handler serves one
\* dispatched occurrence that has not been served, a line is dispatched
\* only when the previous occurrence has been served, and the stub puts
\* the semaphore once for each; also when the interrupt arrives before the
\* thread has been resumed.
C31_ThreadedLineMasked ==
  /\ [](\A l \in ThreadedLines :
          /\ OccurrenceOpen(l) => irq_line[l].masked
          /\ irq_line[l].sem <= 1
          /\ irq_line[l].pending \in {0, 1}
          /\ irq_line[l].sem = 1 => irq_line[l].pending = 1
          /\ irq_line[l].thread = "handler" =>
               irq_line[l].pending = 1 /\ irq_line[l].sem = 0
          /\ irq_line[l].thread = "created" =>
               (irq_line[l].pending = 1 =>
                  \/ irq_line[l].sem = 1
                  \/ \E c \in KCpu : /\ irq_cpu[c].irq = l
                                      /\ irq_cpu[c].pc \in
                                           {"begin", "mask", "eoi", "call"}))
  /\ [][\A l \in ThreadedLines :
          /\ (irq_line[l].masked /\ ~irq_line'[l].masked) =>
               (ThreadUnmask(l) /\ irq_line[l].pending = 0)
          /\ (\E ret \in {0, 1} : ThreadHandler(l, ret)) =>
               irq_line[l].pending = 1 /\ irq_line'[l].pending = 0
          /\ (\E c \in KCpu : DispatchId(c, l)) =>
               irq_line[l].pending = 0 /\ irq_line[l].sem = 0]_vars

\* An interrupt of a threaded line has been dispatched to its end before
\* the thread was resumed: the semaphore holds 1, the line is masked
C31_Witness ==
  \E l \in ThreadedLines :
    /\ irq_line[l].thread = "created" /\ irq_line[l].sem = 1
    /\ irq_line[l].masked /\ irq_line[l].pending = 1
    /\ \E c \in KCpu : irq_cpu[c].irq = l /\ irq_cpu[c].pc = "idle"
                        /\ Logged(c, "exit")

\* task_resume(t) is called in this step
QResumesNow(t) == QResume(t)

\* C32: a task that task_create has made is Suspended, and as long as
\* task_resume has not been called on it, it stays Suspended, is on no run
\* queue and is not dispatched; task_resume on a Suspended task makes it
\* Ready at the back of the run queue of its priority and returns 0;
\* task_resume on a task in any other state returns -EINVAL and changes no
\* task's state and no run queue.
C32_ResumeOnlySuspended ==
  /\ [](\A t \in QTask :
          (q_sched.st[t] # "NONE" /\ t \notin q_resumed) =>
            /\ q_sched.st[t] = "SUSPENDED"
            /\ t \notin OnRunQueues /\ q_task # t)
  /\ [][\A t \in QTask :
          /\ (q_sched.st[t] = "NONE" /\ q_sched'.st[t] # "NONE") =>
               q_sched'.st[t] = "SUSPENDED" /\ t \notin q_resumed'
          /\ (QDispatchesNow /\ q_task' = t) => t \in q_resumed
          /\ QResumesNow(t) =>
               IF q_sched.st[t] = "SUSPENDED"
                 THEN /\ q_ret' = 0
                      /\ q_sched'.st[t] = "READY"
                      /\ \E i \in 1..Len(q_sched'.rq[task_priority[t]]) :
                           /\ q_sched'.rq[task_priority[t]][i] = t
                           /\ SubSeq(q_sched'.rq[task_priority[t]], 1, i - 1)
                                = q_sched.rq[task_priority[t]]
                 ELSE /\ q_ret' = -EINVAL
                      /\ q_sched' = q_sched /\ q_task' = q_task]_vars

\* task_resume has been refused for a Running task after it had made the
\* task Ready once: the task runs, and a created task that was never
\* resumed is still Suspended
C32_Witness ==
  /\ q_ret = -EINVAL /\ q_task # NULL /\ q_task \in q_resumed
  /\ \E t \in QTask : t \notin q_resumed /\ q_sched.st[t] = "SUSPENDED"

\* CPU c holds the scheduler lock / the lock of the primitive
SchedLockHeldBy(c) == sched_lock = LockHeldBy(c)
UserLockHeldBy(c) == user_lock = LockHeldBy(c)

\* CPU c calls spin_lock on the lock of the primitive in this step
AcquiresUserLockNow(c) ==
  \/ \E queue \in BOOLEAN, timeout \in BOOLEAN : SleepCall(c, queue, timeout)
  \/ \E result \in WakeResults : WakeCall(c, result)
  \/ SleepRelock(c)

\* CPU c is at a spin_lock of the primitive's lock / at a sched_lock()
WaitsForUserLock(c) == RunsTask(c) /\ tpc[cpu_task[c]] = "sleep_relock"
WaitsForSchedLock(c) ==
  \/ RunsTask(c) /\ tpc[cpu_task[c]] \in {"sleep_call", "wake_call"}
  \/ RunsScheduler(c) /\ cpu_ctx[c] \in {"start", "idle", "relock"}

\* C33: the lock order is acyclic: a CPU that calls or is about to call
\* spin_lock on the lock of a primitive does not hold the scheduler lock;
\* sched_sleep takes the scheduler lock while its CPU still holds the
\* caller's lock and releases the caller's lock under the scheduler lock;
\* after the wake-up the scheduler lock is released before the caller's lock
\* is taken again; and no two CPUs ever wait for each other, one holding the
\* scheduler lock and the other the primitive's lock.
C33_LockOrderAcyclic ==
  /\ [](\A c \in KCpu :
          /\ (WaitsForUserLock(c) \/ (RunsTask(c) /\ tpc[cpu_task[c]] = "user"))
               => ~SchedLockHeldBy(c)
          /\ \A d \in KCpu \ {c} :
               ~(/\ SchedLockHeldBy(c) /\ WaitsForUserLock(c)
                 /\ UserLockHeldBy(d) /\ WaitsForSchedLock(d)))
  /\ [][\A c \in KCpu :
          /\ AcquiresUserLockNow(c) => ~SchedLockHeldBy(c)
          /\ SleepSchedLock(c) =>
               /\ UserLockHeldBy(c) /\ user_lock' = user_lock
               /\ sched_lock' = LockHeldBy(c)
          /\ (sched_sleep(c) /\ kpanic' = "") =>
               /\ SchedLockHeldBy(c) /\ UserLockHeldBy(c)
               /\ user_lock' = LockFree /\ sched_lock' = sched_lock
          /\ (SleepRelock(c) /\ kpanic' = "") =>
               sched_lock' = sched_lock /\ user_lock' = LockHeldBy(c)]_vars

\* A sleeper that was woken through the queue has released the scheduler
\* lock and taken the caller's lock again
C33_Witness ==
  \E c \in KCpu :
    /\ RunsTask(c) /\ tpc[cpu_task[c]] = "sleep_done"
    /\ woken_by[cpu_task[c]].by = "wake"
    /\ UserLockHeldBy(c) /\ sched_lock = LockFree

\* The cursor that stands n slots after buf_start in a ring of the mailbox's
\* capacity (buf_start itself if the mailbox has no slot)
SlotCursor(n) ==
  IF mailbox.capacity = 0 THEN 0
  ELSE (n % mailbox.capacity) * mailbox.msg_size

\* The slot boundaries inside the buffer
SlotBoundaries ==
  {k * mailbox.msg_size : k \in 0..(mailbox.capacity - 1)} \cup
  (IF mailbox.capacity = 0 THEN {0} ELSE {})

\* C34: in every reachable mailbox state 0 <= size <= capacity; the read
\* and the write cursor are multiples of msg_size from buf_start and below
\* buf_end (at buf_start in a mailbox without a slot); the write cursor is
\* the read cursor advanced by size slots modulo capacity; and after as
\* many successful receives as sends, in particular after capacity of each,
\* size = 0 and read_ptr = write_ptr.
C34_RingInvariant ==
  /\ mailbox.size \in 0..mailbox.capacity
  /\ mailbox.read_ptr \in SlotBoundaries
  /\ mailbox.write_ptr \in SlotBoundaries
  /\ mailbox.buf_end = mailbox.capacity * mailbox.msg_size
  /\ mailbox.read_ptr = SlotCursor(Len(mb_rcvd))
  /\ mailbox.write_ptr = SlotCursor(Len(mb_sent))
  /\ mailbox.write_ptr =
       SlotCursor(mailbox.read_ptr \div mailbox.msg_size + mailbox.size)
  /\ Len(mb_sent) = Len(mb_rcvd) =>
       mailbox.size = 0 /\ mailbox.read_ptr = mailbox.write_ptr
  /\ (Len(mb_sent) = mailbox.capacity /\ Len(mb_rcvd) = mailbox.capacity) =>
       mailbox.read_ptr = 0

\* A mailbox of capacity 2 with messages of 2 bytes after two successful
\* sends and two successful receives
C34_Witness ==
  /\ mailbox.capacity = 2 /\ mailbox.msg_size = 2
  /\ Len(mb_sent) = 2 /\ Len(mb_rcvd) = 2
  /\ mailbox.size = 0 /\ mailbox.read_ptr = mailbox.write_ptr

\* Every task of MActive sleeps in timed_receive without a time-out on an
\* empty mailbox
ReceiversBlocked ==
  /\ mailbox.size = 0
  /\ \A t \in MActive :
       /\ mt_state[t] = "sleep" /\ mt_op[t] = "recv" /\ ~mt_timer[t]
       /\ t \in ListSet(mailbox.receivers)

\* Since n messages had been sent, every receiver has come back from its
\* call with a message
ReceiversReturned(n) ==
  /\ Len(mb_rcvd) >= n + MboxTasks
  /\ \A t \in MActive : mt_state[t] = "run" /\ mt_ret[t] = 0

\* C35: under fair scheduling, if the MboxTasks receivers are blocked in
\* timed_receive without a time-out on an empty mailbox and MboxTasks
\* messages are then sent, all of them eventually return 0.
C35_NoStrandedReceiver ==
  \A n \in 0..MaxSends :
    []((ReceiversBlocked /\ Len(mb_sent) = n) =>
         [](Len(mb_sent) >= n + MboxTasks => <>ReceiversReturned(n)))

\* C36: the reparenting loop of process_destroy terminates for every
\* calling process, the init process included: each iteration shortens the
\* caller's child list, no caller stays in the loop, and a caller that has
\* left the loop has an empty child list and does not hold process_lock
\* when its task exits.
C36_ReparentTerminates ==
  \A k \in Pid :
    /\ (ppc[k] = "d_lock" /\ process[k].children # << >>) =>
         Len(ReparentIteration(process, k)[k].children)
           < Len(process[k].children)
    /\ ppc[k] # "d_hang"
    /\ ppc[k] \in {"d_task", "exited"} =>
         process[k].children = << >> /\ process_lock # k

\* The children whose p->thread->pid one scan of process_wait reads whatever
\* the reads give: those from position i up to the first zombie at which
\* the scan can stop
RECURSIVE SurelyRead(_, _, _)
SurelyRead(list, i, pid) ==
  IF i > Len(list) THEN {}
  ELSE LET p == list[i]
       IN {p} \cup
          (IF process[p].zombie
                /\ (pid <= 0 \/ p = pid \/ thread_state[p] = "freed")
             THEN {}
             ELSE SurelyRead(list, i + 1, pid))

\* C37: a thread descriptor is never read after it has been freed: the
\* thread object of a child is allocated whenever a scan of process_wait
\* reads p->thread->pid of it, and whenever process_copy reads
\* child->thread->pid for its return value.
C37_NoReadAfterFree ==
  [][\A k \in Pid :
       /\ ScansNow(k) =>
            \A p \in SurelyRead(process[k].children, 1, plocal[k].pid) :
              thread_state[p] # "freed"
       /\ CopyReturnsNow(k) => thread_state[plocal[k].child] # "freed"]_vars

\* process_copy of process k gives up in this step because vm_space_clone
\* failed
CopyFailsNow(k) == ppc[k] = "c_clone" /\ ppc'[k] = "user"

\* C38: when process_copy fails because the address space cannot be cloned
\* it returns -ENOMEM, the abandoned child's descriptor is freed, no PID
\* hash entry refers to the child, the child's thread object and kernel
\* stack are freed, and the parent's child list is what it was.
C38_CopyFailureUnwinds ==
  [][\A k \in Pid :
       CopyFailsNow(k) =>
         LET child == plocal[k].child
         IN /\ plocal'[k].ret = -ENOMEM
            /\ process'[child].state = "freed"
            /\ process'[k].children = process[k].children
            /\ child \notin pid_hash'
            /\ thread_state'[child] = "freed"]_vars

\* A wake-up or a time-out makes the sleeper t Ready in this step
SleeperEnqueuedNow(t) ==
  task_state[t] = "SLEEPING" /\ task_state'[t] = "READY"

\* C39: a task is linked into the run queues at most once at any time; a
\* sleeper is made Ready by exactly one of the wake-up and the sleep timer:
\* the one that does records its result and links the task once, nothing
\* changes the winner or the result before the sleep returns, and the sleep
\* returns the winner's result; a timer callback for a task that is no
\* longer Sleeping leaves every task's state, result and list as they were.
C39_OneWakerWins ==
  /\ [](\A t \in KTask :
          /\ RunQueueLinks(t, 0) <= 1
          /\ tpc[t] = "sleep_done" =>
               /\ woken_by[t].by \in {"wake", "timer"}
               /\ sleep_ret[t] = woken_by[t].r)
  /\ [][\A t \in KTask :
          /\ SleeperEnqueuedNow(t) =>
               /\ woken_by[t] = NotWoken
               /\ woken_by'[t].by \in {"wake", "timer"}
               /\ task_sleep_result'[t] = woken_by'[t].r
               /\ RunQueueLinks(t, 0) = 0 /\ RunQueueLinks(t, 0)' = 1
               /\ Occurrences(wait_queue', t) = 0
          /\ (InSleep(t) /\ woken_by[t] # NotWoken) =>
               /\ woken_by'[t] = woken_by[t]
               /\ task_sleep_result'[t] = task_sleep_result[t]
          /\ (TimerFiresNow(t) /\ task_state[t] # "SLEEPING") =>
               /\ sched_queue' = sched_queue /\ wait_queue' = wait_queue
               /\ task_state' = task_state /\ task_flags' = task_flags
               /\ task_sleep_result' = task_sleep_result
               /\ woken_by' = woken_by /\ sched_lock' = sched_lock]_vars

\* A task that slept on the list with a time-out has been woken by a
\* wake-up, and its sleep timer has fired before the task ran again
C39_Witness ==
  \E t \in KTask :
    /\ tpc[t] = "sleep_ret" /\ targ[t].queue /\ targ[t].timeout
    /\ woken_by[t].by = "wake" /\ ~task_timer[t]
    /\ RunQueueLinks(t, 0) = 1

\* context_switch on CPU c in this step: from the scheduler to a task, and
\* from a task to the scheduler
SwitchToTaskNow(c) == cpu_ctx[c] # "switched" /\ cpu_ctx'[c] = "switched"
SwitchToSchedulerNow(c) == cpu_ctx[c] = "switched" /\ cpu_ctx'[c] = "returned"

\* CPU c calls sched_unlock() on the lock some context took earlier
ReleasesSchedLockNow(c) ==
  /\ sched_lock.locked = 1 /\ sched_lock'.locked = 0
  /\ \/ SchedIdle(c) \/ SchedSwitchedBack(c) \/ TaskSchedUnlock(c)
     \/ WakeupAll(c) \/ IsrExitResume(c)

\* The task that CPU c has switched to has not yet called the sched_unlock()
\* that follows its context switch
BeforeUnlockAfterSwitch(c) ==
  /\ cpu_ctx[c] = "switched" /\ cpu_task[c] # NULL
  /\ \/ tisr[cpu_task[c]]
     \/ tpc[cpu_task[c]] \in {"entry", "yield_ret", "resume_ret",
                              "sleep_ret", "wake_loop"}

\* C40: every context switch, from a task to the scheduler and from the
\* scheduler to a task, happens with the scheduler lock held by the CPU that
\* switches, and the context switched to holds it as that CPU until its
\* sched_unlock(); every release of the scheduler lock is done by the CPU
\* recorded as its owner, also for a task that is resumed on another CPU
\* than the one it yielded or slept on; no sched_unlock() panics.
C40_SwitchUnderOwnLock ==
  /\ [](/\ kpanic \notin {"sched_unlock", "sched not locked"}
        /\ \A c \in KCpu :
             (cpu_ctx[c] = "returned" \/ BeforeUnlockAfterSwitch(c))
               => sched_lock = LockHeldBy(c))
  /\ [][/\ \A c \in KCpu :
            /\ SwitchToTaskNow(c) =>
                 sched_lock = LockHeldBy(c) /\ sched_lock' = sched_lock
            /\ SwitchToSchedulerNow(c) => sched_lock' = LockHeldBy(c)
        /\ (sched_lock.locked = 1 /\ sched_lock'.locked = 0) =>
             \E c \in KCpu :
               ReleasesSchedLockNow(c) /\ sched_lock = LockHeldBy(c)]_vars

\* A task that went to sleep on one CPU has been dispatched on the other
\* one and has released the scheduler lock there
C40_Witness ==
  \E c \in KCpu :
    /\ RunsTask(c) /\ tpc[cpu_task[c]] = "sleep_relock"
    /\ task_last_cpu[cpu_task[c]] \notin {NULL, c}
    /\ sched_lock = LockFree

============================================================================
